---- MODULE Spec2Model ----
(***************************************************************************)
(* Session-metrics engine of the Claude status bar extension.              *)
(*                                                                         *)
(* Instants are integers in milliseconds since the epoch, as returned by   *)
(* Date.getTime().  Money is kept in integer micro-dollars (the code       *)
(* rounds every per-message cost to 6 decimal places) and the pricing      *)
(* rates in hundredths of a dollar per million tokens, so that all         *)
(* arithmetic is exact integer arithmetic.  Model names are sequences of   *)
(* one-character strings so that toLowerCase() and includes() are          *)
(* computed character by character.                                        *)
(***************************************************************************)
EXTENDS Integers, Sequences, FiniteSets, TLC

VARIABLES
    messages,        \* argument `messages` of calculateSessionMetrics
    planConfig,      \* argument `planConfig`
    now,             \* the clock value read by `new Date()` at entry
    pc,              \* position inside calculateSessionMetrics
    uniqueMessages,  \* local, Step 1
    sortedMessages,  \* local, Step 2
    recentMessages,  \* local, Step 3
    idx,             \* loop position of groupIntoFiveHourSets (1-based)
    currentSet,      \* local of groupIntoFiveHourSets
    sets,            \* local of groupIntoFiveHourSets, then its result
    activeSet,       \* local, Step 5
    metrics,         \* the returned value (Null or a SessionMetrics)
    modelArg,        \* argument `modelName` of a direct pricing call
    usageArg,        \* argument `usage` of a direct pricing call
    tierResult,      \* value returned by getModelTier
    costResult,      \* value returned by calculateMessageCost
    pcPricing,       \* position of the direct pricing call
    lines,           \* the lines of the session file read by parseSessionFile
    lineIdx,         \* the line the `for await` loop is at (1-based)
    fileMessages,    \* local `messages` of parseSessionFile, then its result
    consoleWarns,    \* number of console.warn calls of parseSessionFile
    consoleErrors,   \* number of console.error calls of parseSessionFile
    pcParser,        \* position inside parseSessionFile
    planLimits,      \* the table PLAN_LIMITS
    planCalls,       \* the calls of getPlanConfig made so far, with their results
    clock,           \* the system clock, as Date.now() and new Date() read it
    logFile,         \* the events in the session files on disk
    currentSession,  \* extension state: Null or the displayed SessionMetrics
    isRefreshing,    \* extension state
    sessionJustEnded,     \* extension state
    refreshingStartTime,  \* extension state: NoTime or an instant
    statusBarItem,   \* what the status bar shows
    shown,           \* the notifications shown so far, with the instant of each
    runs,            \* the updateMetrics runs awaiting their file reads
    timeoutPending,  \* the setTimeout(updateMetrics, 100) calls not yet fired
    ticked,          \* the one-second timer has fired at this value of the clock
    notifyOnSessionEnded,  \* setting notifications.sessionEnded
    notifyNoNewSession     \* setting notifications.noNewSessionWarning

vars == <<messages, planConfig, now, pc, uniqueMessages, sortedMessages,
          recentMessages, idx, currentSet, sets, activeSet, metrics,
          modelArg, usageArg, tierResult, costResult, pcPricing,
          lines, lineIdx, fileMessages, consoleWarns, consoleErrors, pcParser,
          planLimits, planCalls,
          clock, logFile, currentSession, isRefreshing, sessionJustEnded,
          refreshingStartTime, statusBarItem, shown, runs, timeoutPending,
          ticked, notifyOnSessionEnded, notifyNoNewSession>>

engineVars == <<messages, planConfig, now, pc, uniqueMessages, sortedMessages,
                recentMessages, idx, currentSet, sets, activeSet, metrics>>

pricingVars == <<modelArg, usageArg, tierResult, costResult, pcPricing>>

parserVars == <<lines, lineIdx, fileMessages, consoleWarns, consoleErrors, pcParser>>

planVars == <<planLimits, planCalls>>

extensionVars == <<clock, logFile, currentSession, isRefreshing, sessionJustEnded,
                   refreshingStartTime, statusBarItem, shown, runs, timeoutPending,
                   ticked, notifyOnSessionEnded, notifyNoNewSession>>

\* what a step of calculateSessionMetrics leaves alone
outsideEngine == <<pricingVars, parserVars, planVars, extensionVars>>

\* what a direct pricing call leaves alone
outsidePricing == <<engineVars, parserVars, planVars, extensionVars>>

-----------------------------------------------------------------------------
(* Time constants *)

MIN_MS == 60 * 1000

HOUR_MS == 60 * 60 * 1000

SESSION_DURATION_MS == 5 * 60 * 60 * 1000

BURN_RATE_WINDOW_MS == 10 * 60 * 1000

HOURS_BACK == 192

\* the instant h hours and m minutes after the epoch
At(h, m) == h * HOUR_MS + m * MIN_MS

-----------------------------------------------------------------------------
(* Absent values *)

\* null / undefined object
Null == [null |-> TRUE]

\* `usage` absent on a ClaudeMessage
NoUsage == [absent |-> TRUE]

\* `model` undefined (the empty string is falsy too)
NoModel == << >>

\* `refreshingStartTime` null (the instant 0 is falsy too)
NoTime == 0

\* `projectName` undefined (the empty string is falsy too)
NoProject == ""

Max(a, b) == IF a >= b THEN a ELSE b

-----------------------------------------------------------------------------
(* Pricing *)

\* rates in hundredths of a dollar per million tokens
MODEL_PRICING ==
    [opus   |-> [input |-> 1500, output |-> 7500, cacheCreation |-> 1875, cacheRead |-> 150],
     sonnet |-> [input |-> 300,  output |-> 1500, cacheCreation |-> 375,  cacheRead |-> 30],
     haiku  |-> [input |-> 25,   output |-> 125,  cacheCreation |-> 30,   cacheRead |-> 3]]

LowerChar(c) ==
    CASE c = "O" -> "o" [] c = "P" -> "p" [] c = "U" -> "u" [] c = "S" -> "s"
      [] c = "H" -> "h" [] c = "A" -> "a" [] c = "I" -> "i" [] c = "K" -> "k"
      [] c = "N" -> "n" [] c = "E" -> "e" [] c = "T" -> "t" [] c = "C" -> "c"
      [] c = "L" -> "l" [] c = "D" -> "d"
      [] OTHER -> c

\* String.prototype.toLowerCase
ToLowerCase(s) == [i \in 1..Len(s) |-> LowerChar(s[i])]

\* String.prototype.includes
Includes(s, w) ==
    \E i \in 0..(Len(s) - Len(w)) : SubSeq(s, i + 1, i + Len(w)) = w

OpusWord == <<"o", "p", "u", "s">>

HaikuWord == <<"h", "a", "i", "k", "u">>

SonnetWord == <<"s", "o", "n", "n", "e", "t">>

\* getModelTier of the earlier revision: an exact lookup in MODEL_TIER_MAP,
\* in which 'claude-3-haiku' is mapped to sonnet
GetModelTierFromMap(modelName) ==
    IF modelName = NoModel THEN "sonnet"
    ELSE LET claude == <<"c", "l", "a", "u", "d", "e", "-">>
             three == <<"3", "-">>
             threeFive == <<"3", "-", "5", "-">>
         IN  CASE modelName = claude \o three \o OpusWord -> "opus"
               [] modelName = claude \o three \o SonnetWord -> "sonnet"
               [] modelName = claude \o threeFive \o SonnetWord -> "sonnet"
               [] modelName = claude \o three \o HaikuWord -> "sonnet"
               [] modelName = claude \o threeFive \o HaikuWord -> "haiku"
               [] OTHER -> "sonnet"

GetModelTier(modelName) ==
    IF modelName = NoModel THEN "sonnet"
    ELSE LET nameLower == ToLowerCase(modelName) IN
         IF Includes(nameLower, OpusWord) THEN "opus"
         ELSE IF Includes(nameLower, HaikuWord) THEN "haiku"
         ELSE IF Includes(nameLower, SonnetWord) THEN "sonnet"
         ELSE "sonnet"

\* Math.round(x / 100) for a non-negative integer x
RoundHundredths(x) == (x + 50) \div 100

\* calculateMessageCost that leaves the cache counters out
CalculateMessageCostNoCache(usage, modelName) ==
    LET tier == GetModelTier(modelName)
        pricing == MODEL_PRICING[tier]
        inputCost == usage.input_tokens * pricing.input
        outputCost == usage.output_tokens * pricing.output
    IN  RoundHundredths(inputCost + outputCost)

\* calculateMessageCost that cuts the cost off at 6 decimals (Math.floor)
CalculateMessageCostTruncated(usage, modelName) ==
    LET tier == GetModelTier(modelName)
        pricing == MODEL_PRICING[tier]
    IN  (usage.input_tokens * pricing.input + usage.output_tokens * pricing.output
         + usage.cache_creation_input_tokens * pricing.cacheCreation
         + usage.cache_read_input_tokens * pricing.cacheRead) \div 100

\* Cost of one message in micro-dollars:
\* Math.round(totalCost * 1_000_000) with totalCost in dollars
CalculateMessageCost(usage, modelName) ==
    LET tier == GetModelTier(modelName)
        pricing == MODEL_PRICING[tier]
        inputCost == usage.input_tokens * pricing.input
        outputCost == usage.output_tokens * pricing.output
        cacheCreationCost == usage.cache_creation_input_tokens * pricing.cacheCreation
        cacheReadCost == usage.cache_read_input_tokens * pricing.cacheRead
        totalCost == inputCost + outputCost + cacheCreationCost + cacheReadCost
    IN  RoundHundredths(totalCost)

\* calculateLimitTokens with the cache counters wrongly included
CalculateLimitTokensWithCache(usage) ==
    usage.input_tokens + usage.output_tokens
      + usage.cache_creation_input_tokens + usage.cache_read_input_tokens

CalculateLimitTokens(usage) ==
    LET inputTokens == usage.input_tokens
        outputTokens == usage.output_tokens
    IN  inputTokens + outputTokens

-----------------------------------------------------------------------------
(* Step 1: deduplication, first occurrence wins *)

\* `${m.id}:${m.requestId}`
Hash(m) == m.id \o ":" \o m.requestId

\* dedup that lets a later duplicate replace the earlier one
DedupKeepLast(msgs) ==
    SelectSeq([i \in 1..Len(msgs) |->
                 IF \E j \in (i + 1)..Len(msgs) : Hash(msgs[j]) = Hash(msgs[i])
                 THEN Null ELSE msgs[i]],
              LAMBDA m : m # Null)

\* the loop over the messages: when it reaches message i, seenHashes holds
\* the hash of every earlier message (a message that was skipped had its
\* hash in the set already); message i is pushed when its hash is not there
Dedup(msgs) ==
    LET seenHashes(i) == {Hash(msgs[j]) : j \in 1..(i - 1)}
        pushed == {i \in 1..Len(msgs) : Hash(msgs[i]) \notin seenHashes(i)}
    IN  [p \in 1..Cardinality(pushed) |->
            msgs[CHOOSE i \in pushed : Cardinality({j \in pushed : j < i}) = p - 1]]

-----------------------------------------------------------------------------
(* Step 2: stable sort by timestamp *)

\* the sort left out: the messages stay in file order
SortByTimestampFileOrder(msgs) == msgs

\* Array.prototype.sort is stable: element j comes before element i when the
\* comparator is negative for them, or zero and j is the earlier one.  The
\* element at place p of the result is the one with p - 1 elements before it.
SortByTimestamp(msgs) ==
    LET n == Len(msgs)
        Before(j, i) ==
            \/ msgs[j].timestamp - msgs[i].timestamp < 0
            \/ msgs[j].timestamp - msgs[i].timestamp = 0 /\ j < i
        place == [i \in 1..n |-> Cardinality({j \in 1..n : Before(j, i)}) + 1]
    IN  [p \in 1..n |-> msgs[CHOOSE i \in 1..n : place[i] = p]]

-----------------------------------------------------------------------------
(* Step 3: staleness filter *)

CutoffTime(t) == t - HOURS_BACK * 60 * 60 * 1000

\* the filter with an exclusive cutoff
FilterRecentExclusive(msgs, t) ==
    SelectSeq(msgs, LAMBDA msg : msg.timestamp > CutoffTime(t))

FilterRecent(msgs, t) ==
    SelectSeq(msgs, LAMBDA msg : msg.timestamp >= CutoffTime(t))

-----------------------------------------------------------------------------
(* Step 4: groupIntoFiveHourSets *)

\* setMinutes(0, 0, 0): truncation to the top of the hour (the host zone is
\* taken to be a whole number of hours away from UTC)
RoundToNearestHour(t) == t - (t % HOUR_MS)

\* a set that starts at the message's own instant instead of the top of its
\* hour
NewSetUnrounded(message) ==
    [startTime |-> message.timestamp,
     endTime |-> message.timestamp + SESSION_DURATION_MS,
     lastMessageTime |-> message.timestamp,
     messages |-> <<message>>]

NewSet(message) ==
    LET roundedStart == RoundToNearestHour(message.timestamp)
    IN  [startTime |-> roundedStart,
         endTime |-> roundedStart + SESSION_DURATION_MS,
         lastMessageTime |-> message.timestamp,
         messages |-> <<message>>]

\* the loop body with `>` in place of `>=` in the end-of-window test
GroupMessageEndInclusive(g, message) ==
    LET msgTime == message.timestamp IN
    IF g.currentSet = Null
    THEN [sets |-> g.sets, currentSet |-> NewSet(message)]
    ELSE IF msgTime > g.currentSet.endTime
    THEN [sets |-> Append(g.sets, g.currentSet), currentSet |-> NewSet(message)]
    ELSE LET timeSinceLastMessage == msgTime - g.currentSet.lastMessageTime IN
         IF Len(g.currentSet.messages) > 0 /\ timeSinceLastMessage >= SESSION_DURATION_MS
         THEN [sets |-> Append(g.sets, g.currentSet), currentSet |-> NewSet(message)]
         ELSE [sets |-> g.sets,
               currentSet |-> [g.currentSet EXCEPT
                                 !.messages = Append(@, message),
                                 !.lastMessageTime = msgTime]]

\* one iteration of the loop over `messages`; g holds the locals
GroupMessage(g, message) ==
    LET msgTime == message.timestamp IN
    IF g.currentSet = Null
    THEN [sets |-> g.sets, currentSet |-> NewSet(message)]
    ELSE IF msgTime >= g.currentSet.endTime
    THEN [sets |-> Append(g.sets, g.currentSet), currentSet |-> NewSet(message)]
    ELSE LET timeSinceLastMessage == msgTime - g.currentSet.lastMessageTime IN
         IF Len(g.currentSet.messages) > 0 /\ timeSinceLastMessage >= SESSION_DURATION_MS
         THEN [sets |-> Append(g.sets, g.currentSet), currentSet |-> NewSet(message)]
         ELSE [sets |-> g.sets,
               currentSet |-> [g.currentSet EXCEPT
                                 !.messages = Append(@, message),
                                 !.lastMessageTime = msgTime]]

\* the return that forgets to add the last set
GroupReturnDropLast(g) == g.sets

\* "Add the last set" and return
GroupReturn(g) ==
    IF g.currentSet # Null THEN Append(g.sets, g.currentSet) ELSE g.sets

GroupIntoFiveHourSets(msgs) ==
    IF Len(msgs) = 0 THEN << >>
    ELSE LET F[i \in 0..Len(msgs)] ==
               IF i = 0 THEN [sets |-> << >>, currentSet |-> Null]
               ELSE GroupMessage(F[i - 1], msgs[i])
         IN  GroupReturn(F[Len(msgs)])

-----------------------------------------------------------------------------
(* Step 5: active window selection *)

\* the selection with the end of the window excluded
SelectActiveSetsEndExclusive(ss, t) ==
    SelectSeq(ss, LAMBDA set : t >= set.startTime /\ t < set.endTime)

\* the selection that takes every set, overlapping now or not
SelectActiveSetsAll(ss, t) == ss

SelectActiveSets(ss, t) ==
    SelectSeq(ss, LAMBDA set : t >= set.startTime /\ t <= set.endTime)

\* the choice of the first overlapping set instead of the last
PickActiveSetFirst(activeSets) ==
    IF Len(activeSets) > 0 THEN activeSets[1] ELSE Null

PickActiveSet(activeSets) ==
    IF Len(activeSets) > 0 THEN activeSets[Len(activeSets)] ELSE Null

-----------------------------------------------------------------------------
(* Step 6: aggregation over the messages of the active set *)

EmptyTotals ==
    [totalTokens |-> 0, inputTokens |-> 0, cacheCreationTokens |-> 0,
     cacheReadTokens |-> 0, outputTokens |-> 0, totalCost |-> 0,
     messageCount |-> 0,
     modelBreakdown |-> [opus |-> 0, sonnet |-> 0, haiku |-> 0],
     projectBreakdown |-> << >>,
     seenIds |-> {}]

\* the project total that takes the tokens twice
AddToProjectTwice(projectBreakdown, name, tokens) ==
    [p \in (DOMAIN projectBreakdown) \cup {name} |->
        IF p = name
        THEN (IF p \in DOMAIN projectBreakdown THEN projectBreakdown[p] ELSE 0) + 2 * tokens
        ELSE projectBreakdown[p]]

\* projectBreakdown[name] = (projectBreakdown[name] || 0) + tokens
AddToProject(projectBreakdown, name, tokens) ==
    [p \in (DOMAIN projectBreakdown) \cup {name} |->
        IF p = name
        THEN (IF p \in DOMAIN projectBreakdown THEN projectBreakdown[p] ELSE 0) + tokens
        ELSE projectBreakdown[p]]

\* one iteration of the loop over sessionMessages
AggregateMessage(a, message) ==
    IF message.usage = NoUsage THEN a
    ELSE LET uniqueHash == Hash(message) IN
         IF uniqueHash \in a.seenIds THEN a
         ELSE LET msgTokens == CalculateLimitTokens(message.usage)
                  msgCost == CalculateMessageCost(message.usage, message.model)
                  modelTier == GetModelTier(message.model)
              IN  [totalTokens |-> a.totalTokens + msgTokens,
                   inputTokens |-> a.inputTokens + message.usage.input_tokens,
                   cacheCreationTokens |->
                       a.cacheCreationTokens + message.usage.cache_creation_input_tokens,
                   cacheReadTokens |->
                       a.cacheReadTokens + message.usage.cache_read_input_tokens,
                   outputTokens |-> a.outputTokens + message.usage.output_tokens,
                   totalCost |-> a.totalCost + msgCost,
                   messageCount |-> a.messageCount + 1,
                   modelBreakdown |->
                       [a.modelBreakdown EXCEPT ![modelTier] = @ + msgTokens],
                   projectBreakdown |->
                       IF message.projectName # NoProject
                       THEN AddToProject(a.projectBreakdown, message.projectName, msgTokens)
                       ELSE a.projectBreakdown,
                   seenIds |-> a.seenIds \cup {uniqueHash}]

Aggregate(sessionMessages) ==
    LET F[i \in 0..Len(sessionMessages)] ==
          IF i = 0 THEN EmptyTotals ELSE AggregateMessage(F[i - 1], sessionMessages[i])
    IN  F[Len(sessionMessages)]

-----------------------------------------------------------------------------
(* Step 8: burn rate *)

\* A rate of `value` units per `elapsedMs` milliseconds, i.e.
\* value / (elapsedMs / 60000) units per minute; the rate 0 is ZeroRate.
ZeroRate == [value |-> 0, elapsedMs |-> 1]

\* the value extractor is a function on the messages it is applied to
SumValues(msgs, valueExtractor) ==
    LET F[i \in 0..Len(msgs)] ==
          IF i = 0 THEN 0 ELSE F[i - 1] + valueExtractor[msgs[i]]
    IN  F[Len(msgs)]

CalculateBurnRate(msgs, t, valueExtractor) ==
    LET windowStart == t - BURN_RATE_WINDOW_MS
        recent == SelectSeq(msgs, LAMBDA msg : msg.timestamp >= windowStart)
    IN  IF Len(recent) = 0 THEN ZeroRate
        ELSE LET totalValue == SumValues(recent, valueExtractor)
                 earliestTime == recent[1].timestamp
                 elapsedMs == t - earliestTime
             IN  IF elapsedMs > 0
                 THEN [value |-> totalValue, elapsedMs |-> elapsedMs]
                 ELSE ZeroRate

TokenValue(msg) == IF msg.usage # NoUsage THEN CalculateLimitTokens(msg.usage) ELSE 0

CostValue(msg) ==
    IF msg.usage # NoUsage THEN CalculateMessageCost(msg.usage, msg.model) ELSE 0

MessageValue(msg) == IF msg.usage # NoUsage THEN 1 ELSE 0

-----------------------------------------------------------------------------
(* Steps 6-8 and the returned object *)

\* isActive computed with >= instead of >
IsActiveInclusive(timeRemaining) == timeRemaining >= 0

IsActive(timeRemaining) == timeRemaining > 0

BuildMetrics(set, plan, t) ==
    LET sessionMessages == set.messages
        members == {sessionMessages[i] : i \in 1..Len(sessionMessages)}
        timeRemaining == Max(0, set.endTime - t)
        a == Aggregate(sessionMessages)
    IN  [totalTokens |-> a.totalTokens,
         inputTokens |-> a.inputTokens,
         cacheCreationTokens |-> a.cacheCreationTokens,
         cacheReadTokens |-> a.cacheReadTokens,
         outputTokens |-> a.outputTokens,
         totalCost |-> a.totalCost,
         costLimit |-> plan.costLimit,
         messageCount |-> a.messageCount,
         messageLimit |-> plan.messageLimit,
         sessionId |-> "combined",
         startTime |-> set.startTime,
         lastMessageTime |-> set.lastMessageTime,
         sessionEndTime |-> set.endTime,
         timeRemaining |-> timeRemaining,
         isActive |-> IsActive(timeRemaining),
         tokenBurnRate |-> CalculateBurnRate(sessionMessages, t, [msg \in members |-> TokenValue(msg)]),
         costBurnRate |-> CalculateBurnRate(sessionMessages, t, [msg \in members |-> CostValue(msg)]),
         messageBurnRate |-> CalculateBurnRate(sessionMessages, t, [msg \in members |-> MessageValue(msg)]),
         modelBreakdown |-> a.modelBreakdown,
         projectBreakdown |-> a.projectBreakdown]

\* calculateSessionMetrics as a function of its arguments and the clock
CalculateSessionMetrics(msgs, plan, t) ==
    IF Len(msgs) = 0 THEN Null
    ELSE LET recent == FilterRecent(SortByTimestamp(Dedup(msgs)), t) IN
         IF Len(recent) = 0 THEN Null
         ELSE LET ss == GroupIntoFiveHourSets(recent) IN
              IF Len(ss) = 0 THEN Null
              ELSE LET set == PickActiveSet(SelectActiveSets(ss, t)) IN
                   IF set = Null THEN Null ELSE BuildMetrics(set, plan, t)

-----------------------------------------------------------------------------
(* Bounds and input domains *)

\* longest message list handed to calculateSessionMetrics
MaxMsgs == 3

\* longest message list in the runs that vary usage and model
MaxCostMsgs == 2

\* largest number of name fragments concatenated into a model name
MaxFrags == 3

\* all sequences over D of length at most n
SeqsUpTo(D, n) == UNION {[1..k -> D] : k \in 0..n}

Message(id, requestId, timestamp, model, projectName, usage) ==
    [id |-> id, requestId |-> requestId, timestamp |-> timestamp,
     model |-> model, projectName |-> projectName, usage |-> usage]

Usage(i, o, cc, cr) ==
    [input_tokens |-> i, output_tokens |-> o,
     cache_creation_input_tokens |-> cc, cache_read_input_tokens |-> cr]

\* the `pro` preset of PLAN_LIMITS, cost limit in micro-dollars
ProPlan == [plan |-> "pro", tokenLimit |-> 19000, costLimit |-> 18000000,
            messageLimit |-> 250]

\* the table of presets, cost limits in micro-dollars
PLAN_LIMITS ==
    [pro    |-> ProPlan,
     max5   |-> [plan |-> "max5", tokenLimit |-> 88000, costLimit |-> 35000000,
                 messageLimit |-> 1000],
     max20  |-> [plan |-> "max20", tokenLimit |-> 220000, costLimit |-> 140000000,
                 messageLimit |-> 2000],
     custom |-> [plan |-> "custom", tokenLimit |-> 44000, costLimit |-> 50000000,
                 messageLimit |-> 250]]

SonnetName == <<"c", "l", "a", "u", "d", "e", "-", "3", "-", "5", "-",
                "s", "o", "n", "n", "e", "t">>

OpusName == <<"c", "l", "a", "u", "d", "e", "-", "o", "p", "u", "s", "-", "4">>

HaikuName == <<"c", "l", "a", "u", "d", "e", "-", "3", "-", "h", "a", "i", "k", "u">>

\* event instants: inside the first hour, one minute before the end of the
\* window anchored there, exactly on that end, and 190 hours later
EventTimes == {At(0, 17), At(4, 59), At(5, 0), At(190, 5)}

\* clock values: inside the first window, on its end, after the second
\* window, and 192 hours after the first event (exactly, and one minute more)
NowTimes == {At(0, 20), At(5, 0), At(10, 1), At(192, 17), At(192, 18)}

WindowMessages ==
    {Message(id, "r1", t, SonnetName, "p1", Usage(100, 50, 0, 0)) :
        id \in {"a", "b", "c"}, t \in EventTimes}

\* duplicates that drift in timestamp, usage and request id
DedupMessages ==
    {Message(id, r, t, SonnetName, "p1", u) :
        id \in {"a", "b"}, r \in {"r1", "unknown"},
        t \in {At(0, 17), At(5, 0)},
        u \in {Usage(100, 50, 0, 0), Usage(7, 0, 1000, 0)}}

CostUsages ==
    {Usage(io[1], io[2], c[1], c[2]) :
        io \in {<<1, 0>>, <<2, 0>>, <<100, 50>>}, c \in {<<0, 0>>, <<1, 1>>}}

\* longest list of degenerate messages
MaxDegenerateMsgs == 2

\* messages without a model or without a usage object (types.ts: both are
\* optional)
DegenerateMessages ==
    {Message(e[1], "r1", e[2], mu[1], "p1", mu[2]) :
        e \in {<<"a", At(0, 17)>>, <<"b", At(4, 59)>>},
        mu \in {<<NoModel, Usage(100, 50, 0, 0)>>, <<SonnetName, NoUsage>>,
                <<NoModel, NoUsage>>}}

\* clock values: inside the window of the events, and when the event at
\* 00:17 is stale and the window of the event at 04:59 is over
DegenerateNowTimes == {At(0, 20), At(192, 18)}

\* what varies between the messages of a cost run: model and usage
CostShapes == {<<m, u>> : m \in {NoModel, OpusName, HaikuName}, u \in CostUsages}

\* the i-th message of a cost run has its own id
IdOf(i) == <<"a", "b", "c", "d", "e">>[i]

CostInputs ==
    {[i \in 1..Len(f) |->
         Message(IdOf(i), "r1", At(0, 17), f[i][1], "p1", f[i][2])] :
       f \in SeqsUpTo(CostShapes, MaxCostMsgs)}

\* fragments of model names
FClaude == <<"c", "l", "a", "u", "d", "e", "-">>

FThree == <<"3", "-">>

FThreeFive == <<"3", "-", "5", "-">>

Fragments ==
    {FClaude, FThree, FThreeFive, OpusWord, <<"O", "p", "u", "s">>, HaikuWord,
     <<"H", "A", "I", "K", "U">>, SonnetWord, <<"o", "p">>, <<"u", "s">>,
     <<"h", "a", "i">>, <<"k", "u">>, <<"g", "p", "t">>}

RECURSIVE Concat(_)
Concat(fs) == IF Len(fs) = 0 THEN << >> ELSE Head(fs) \o Concat(Tail(fs))

\* model names: undefined, or up to MaxFrags fragments one after the other
ModelNames == {Concat(fs) : fs \in SeqsUpTo(Fragments, MaxFrags)}

-----------------------------------------------------------------------------
(* The state machine: one call of calculateSessionMetrics, step by step *)

PricingIdle ==
    /\ modelArg = NoModel
    /\ usageArg = Usage(0, 0, 0, 0)
    /\ tierResult = ""
    /\ costResult = 0
    /\ pcPricing = "idle"

ParserIdle ==
    /\ lines = << >>
    /\ lineIdx = 1
    /\ fileMessages = << >>
    /\ consoleWarns = 0
    /\ consoleErrors = 0
    /\ pcParser = "idle"

\* the table as the module defines it, no call made
PlansIdle ==
    /\ planLimits = PLAN_LIMITS
    /\ planCalls = << >>

\* the extension is not activated
ExtensionIdle ==
    /\ clock = 0
    /\ logFile = << >>
    /\ currentSession = Null
    /\ isRefreshing = FALSE
    /\ sessionJustEnded = FALSE
    /\ refreshingStartTime = NoTime
    /\ statusBarItem = [text |-> ""]
    /\ shown = << >>
    /\ runs = << >>
    /\ timeoutPending = 0
    /\ ticked = FALSE
    /\ notifyOnSessionEnded = TRUE
    /\ notifyNoNewSession = TRUE

\* nothing but calculateSessionMetrics is running
OutsideEngineIdle == PricingIdle /\ ParserIdle /\ PlansIdle /\ ExtensionIdle

EngineEntry(inputs, clocks) ==
    /\ messages \in inputs
    /\ planConfig = ProPlan
    /\ now \in clocks
    /\ pc = "start"
    /\ uniqueMessages = << >>
    /\ sortedMessages = << >>
    /\ recentMessages = << >>
    /\ idx = 1
    /\ currentSet = Null
    /\ sets = << >>
    /\ activeSet = Null
    /\ metrics = Null

Init == EngineEntry(SeqsUpTo(WindowMessages, MaxMsgs), NowTimes) /\ OutsideEngineIdle

InitDedup == EngineEntry(SeqsUpTo(DedupMessages, MaxMsgs), {At(0, 20), At(5, 0)}) /\ OutsideEngineIdle

InitCost == EngineEntry(CostInputs, {At(0, 20)}) /\ OutsideEngineIdle

\* lines 109-126: empty input returns null, otherwise Step 1
StepDedup ==
    /\ pc = "start"
    /\ IF Len(messages) = 0
       THEN /\ pc' = "done"
            /\ metrics' = Null
            /\ UNCHANGED uniqueMessages
       ELSE /\ pc' = "sort"
            /\ uniqueMessages' = Dedup(messages)
            /\ UNCHANGED metrics
    /\ UNCHANGED <<messages, planConfig, now, sortedMessages, recentMessages,
                   idx, currentSet, sets, activeSet>>
    /\ UNCHANGED outsideEngine

\* lines 130-133
StepSort ==
    /\ pc = "sort"
    /\ sortedMessages' = SortByTimestamp(uniqueMessages)
    /\ pc' = "filter"
    /\ UNCHANGED <<messages, planConfig, now, uniqueMessages, recentMessages,
                   idx, currentSet, sets, activeSet, metrics>>
    /\ UNCHANGED outsideEngine

\* lines 135-148, and the entry of groupIntoFiveHourSets
StepFilter ==
    /\ pc = "filter"
    /\ recentMessages' = FilterRecent(sortedMessages, now)
    /\ IF Len(recentMessages') = 0
       THEN /\ pc' = "done"
            /\ metrics' = Null
       ELSE /\ pc' = "group"
            /\ UNCHANGED metrics
    /\ idx' = 1
    /\ currentSet' = Null
    /\ sets' = << >>
    /\ UNCHANGED <<messages, planConfig, now, uniqueMessages, sortedMessages,
                   activeSet>>
    /\ UNCHANGED outsideEngine

\* lines 41-90: one iteration of the loop of groupIntoFiveHourSets
StepGroupMessage ==
    /\ pc = "group"
    /\ idx <= Len(recentMessages)
    /\ LET g == GroupMessage([sets |-> sets, currentSet |-> currentSet],
                             recentMessages[idx])
       IN  /\ sets' = g.sets
           /\ currentSet' = g.currentSet
    /\ idx' = idx + 1
    /\ UNCHANGED <<messages, planConfig, now, pc, uniqueMessages, sortedMessages,
                   recentMessages, activeSet, metrics>>
    /\ UNCHANGED outsideEngine

\* lines 92-97: the last set is added and the sets are returned
StepGroupReturn ==
    /\ pc = "group"
    /\ idx > Len(recentMessages)
    /\ sets' = GroupReturn([sets |-> sets, currentSet |-> currentSet])
    /\ pc' = "select"
    /\ UNCHANGED <<messages, planConfig, now, uniqueMessages, sortedMessages,
                   recentMessages, idx, currentSet, activeSet, metrics>>
    /\ UNCHANGED outsideEngine

\* lines 164-184
StepSelect ==
    /\ pc = "select"
    /\ IF Len(sets) = 0
       THEN /\ pc' = "done"
            /\ metrics' = Null
            /\ UNCHANGED activeSet
       ELSE /\ activeSet' = PickActiveSet(SelectActiveSets(sets, now))
            /\ IF activeSet' = Null
               THEN /\ pc' = "done"
                    /\ metrics' = Null
               ELSE /\ pc' = "aggregate"
                    /\ UNCHANGED metrics
    /\ UNCHANGED <<messages, planConfig, now, uniqueMessages, sortedMessages,
                   recentMessages, idx, currentSet, sets>>
    /\ UNCHANGED outsideEngine

\* lines 192-326
StepAggregate ==
    /\ pc = "aggregate"
    /\ metrics' = BuildMetrics(activeSet, planConfig, now)
    /\ pc' = "done"
    /\ UNCHANGED <<messages, planConfig, now, uniqueMessages, sortedMessages,
                   recentMessages, idx, currentSet, sets, activeSet>>
    /\ UNCHANGED outsideEngine

Next ==
    \/ StepDedup
    \/ StepSort
    \/ StepFilter
    \/ StepGroupMessage
    \/ StepGroupReturn
    \/ StepSelect
    \/ StepAggregate

Spec == Init /\ [][Next]_vars

SpecDedup == InitDedup /\ [][Next]_vars

SpecCost == InitCost /\ [][Next]_vars

\* the step-by-step run returns what the function returns
StepwiseAgrees ==
    pc = "done" => metrics = CalculateSessionMetrics(messages, planConfig, now)

-----------------------------------------------------------------------------
(* Direct calls of the pricing functions *)

EngineIdle ==
    /\ messages = << >>
    /\ planConfig = ProPlan
    /\ now = 0
    /\ pc = "done"
    /\ uniqueMessages = << >>
    /\ sortedMessages = << >>
    /\ recentMessages = << >>
    /\ idx = 1
    /\ currentSet = Null
    /\ sets = << >>
    /\ activeSet = Null
    /\ metrics = Null

-----------------------------------------------------------------------------
(* Calls of calculateSessionMetrics with degenerate input *)

InitDegenerate == EngineIdle /\ OutsideEngineIdle

\* the caller hands over its messages and the function reads the clock; one
\* call is followed to its end
CallDegenerate ==
    /\ pc = "done"
    /\ now = 0
    /\ messages' \in SeqsUpTo(DegenerateMessages, MaxDegenerateMsgs)
    /\ now' \in DegenerateNowTimes
    /\ pc' = "start"
    /\ uniqueMessages' = << >>
    /\ sortedMessages' = << >>
    /\ recentMessages' = << >>
    /\ idx' = 1
    /\ currentSet' = Null
    /\ sets' = << >>
    /\ activeSet' = Null
    /\ metrics' = Null
    /\ UNCHANGED planConfig
    /\ UNCHANGED outsideEngine

NextDegenerate ==
    \/ CallDegenerate
    \/ Next

\* calculateSessionMetrics is synchronous: a call that has begun runs on;
\* every step of it moves pc or the loop index
SpecDegenerate == InitDegenerate /\ [][NextDegenerate]_vars /\ WF_<<pc, idx>>(Next)

-----------------------------------------------------------------------------

\* a usage whose cost is a whole number of micro-dollars at the haiku rates
PricingUsage == Usage(4, 4, 10, 100)

InitPricing ==
    /\ EngineIdle
    /\ ParserIdle
    /\ PlansIdle
    /\ ExtensionIdle
    /\ modelArg \in ModelNames
    /\ usageArg = PricingUsage
    /\ tierResult = ""
    /\ costResult = 0
    /\ pcPricing = "tier"

CallGetModelTier ==
    /\ pcPricing = "tier"
    /\ tierResult' = GetModelTier(modelArg)
    /\ pcPricing' = "cost"
    /\ UNCHANGED <<modelArg, usageArg, costResult>>
    /\ UNCHANGED outsidePricing

CallCalculateMessageCost ==
    /\ pcPricing = "cost"
    /\ costResult' = CalculateMessageCost(usageArg, modelArg)
    /\ pcPricing' = "done"
    /\ UNCHANGED <<modelArg, usageArg, tierResult>>
    /\ UNCHANGED outsidePricing

NextPricing ==
    \/ CallGetModelTier
    \/ CallCalculateMessageCost

SpecPricing == InitPricing /\ [][NextPricing]_vars

-----------------------------------------------------------------------------
(* parseSessionFile *)

(* A line of the file is blank, text that JSON.parse rejects, the JSON     *)
(* literal null, or a JSON object.  In an object an absent string is "",   *)
(* an absent counter is 0 and an absent timestamp is NoTimestamp: the code *)
(* reads them with `||` and `&&`, which treat the absent value and the     *)
(* falsy one alike.  A timestamp is the instant its ISO string denotes.    *)

\* `message` absent on a record
NoMessage == [none |-> TRUE]

\* `timestamp` absent on a record
NoTimestamp == 0

BlankLine == [kind |-> "blank"]

MalformedLine == [kind |-> "malformed"]

NullLine == [kind |-> "null"]

\* the usage object of a record; `model` is usage.model
RawUsage(i, o, cc, cr, model) ==
    [input_tokens |-> i, output_tokens |-> o,
     cache_creation_input_tokens |-> cc, cache_read_input_tokens |-> cr,
     model |-> model]

\* the nested message of a record
RawMessage(id, role, model, usage) ==
    [id |-> id, role |-> role, model |-> model, usage |-> usage]

\* a JSON object; rootModel, rootModelCap and requestModel are its fields
\* model, Model and request.model
ObjectLine(type, message, uuid, request_id, requestId, timestamp, rootModel, rootModelCap, requestModel) ==
    [kind |-> "object", type |-> type, message |-> message, uuid |-> uuid,
     request_id |-> request_id, requestId |-> requestId, timestamp |-> timestamp,
     rootModel |-> rootModel, rootModelCap |-> rootModelCap,
     requestModel |-> requestModel]

\* hasTokens that looks at the cache counters as well
HasTokensAnyCounter(usage) ==
    \/ usage.input_tokens > 0
    \/ usage.output_tokens > 0
    \/ usage.cache_creation_input_tokens > 0
    \/ usage.cache_read_input_tokens > 0

\* (input_tokens && input_tokens > 0) || (output_tokens && output_tokens > 0)
HasTokens(usage) ==
    \/ (usage.input_tokens # 0 /\ usage.input_tokens > 0)
    \/ (usage.output_tokens # 0 /\ usage.output_tokens > 0)

\* modelCandidates.find(m => m && typeof m === 'string') || undefined
FindModel(modelCandidates) ==
    LET found == SelectSeq(modelCandidates, LAMBDA m : m # NoModel)
    IN  IF Len(found) > 0 THEN found[1] ELSE NoModel

\* a || b for strings
OrElse(a, b) == IF a # "" THEN a ELSE b

\* msg.id || parsed.uuid || ''
IdOfRecord(parsed) == OrElse(parsed.message.id, OrElse(parsed.uuid, ""))

\* a request id that falls back on the record's uuid
RequestIdOfRecordUuid(parsed) ==
    OrElse(parsed.request_id, OrElse(parsed.requestId, parsed.uuid))

\* parsed.request_id || parsed.requestId || 'unknown'
RequestIdOfRecord(parsed) ==
    OrElse(parsed.request_id, OrElse(parsed.requestId, "unknown"))

\* the ClaudeMessage built from a record that passed the checks
BuildMessage(parsed, projectName, parseTime) ==
    LET msg == parsed.message
    IN  [id |-> IdOfRecord(parsed),
         requestId |-> RequestIdOfRecord(parsed),
         timestamp |-> IF parsed.timestamp # NoTimestamp THEN parsed.timestamp ELSE parseTime,
         role |-> OrElse(msg.role, "user"),
         model |-> FindModel(<<msg.model, parsed.rootModel, parsed.rootModelCap,
                              msg.usage.model, parsed.requestModel>>),
         projectName |-> projectName,
         usage |-> Usage(msg.usage.input_tokens, msg.usage.output_tokens,
                         msg.usage.cache_creation_input_tokens,
                         msg.usage.cache_read_input_tokens)]

\* JSON.parse(line) throws a SyntaxError; `parsed.type` of null throws a
\* TypeError
Throws(line) == line.kind \in {"malformed", "null"}

\* the checks between JSON.parse and the construction of the message
Passes(parsed) ==
    IF parsed.type = "summary" \/ parsed.message = NoMessage THEN FALSE
    ELSE IF parsed.message.usage = NoUsage THEN FALSE
    ELSE HasTokens(parsed.message.usage)

\* longest session file, in lines
MaxLines == 3

\* argument `projectName` of parseSessionFile
ProjectDir == "p1"

\* the clock while the file is parsed, and when the metrics are calculated
ParseClock == At(0, 19)

EngineClock == At(0, 20)

CountedMessage(id, usage) == RawMessage(id, "assistant", SonnetName, usage)

SessionLines ==
    {BlankLine, MalformedLine, NullLine,
     \* a summary that carries a message with tokens
     ObjectLine("summary", CountedMessage("s", RawUsage(100, 50, 0, 0, NoModel)),
                "", "r1", "", At(0, 17), NoModel, NoModel, NoModel),
     \* a record without message
     ObjectLine("system", NoMessage, "u1", "", "", At(0, 17), NoModel, NoModel, NoModel),
     \* a message without usage
     ObjectLine("user", RawMessage("m", "user", NoModel, NoUsage),
                "u2", "", "", At(0, 17), NoModel, NoModel, NoModel),
     \* cache counters only
     ObjectLine("assistant", CountedMessage("c", RawUsage(0, 0, 1000, 0, NoModel)),
                "", "r1", "", At(0, 17), NoModel, NoModel, NoModel),
     \* message id and request_id
     ObjectLine("assistant", CountedMessage("a", RawUsage(100, 50, 0, 0, NoModel)),
                "", "r1", "", At(0, 17), NoModel, NoModel, NoModel),
     \* message id and requestId
     ObjectLine("assistant", CountedMessage("b", RawUsage(100, 50, 0, 0, NoModel)),
                "", "", "r1", At(0, 18), NoModel, NoModel, NoModel),
     \* message id, no request id
     ObjectLine("assistant", CountedMessage("a", RawUsage(100, 50, 0, 0, NoModel)),
                "", "", "", At(0, 18), NoModel, NoModel, NoModel),
     \* uuid only, no request id, the model in request.model
     ObjectLine("assistant", RawMessage("", "assistant", NoModel, RawUsage(7, 0, 1000, 0, NoModel)),
                "a", "", "", At(0, 18), NoModel, NoModel, OpusName),
     \* no id, no uuid, no request id, no timestamp, no role, output only, the
     \* model at the root
     ObjectLine("assistant", RawMessage("", "", NoModel, RawUsage(0, 5, 0, 0, NoModel)),
                "", "", "", NoTimestamp, HaikuName, NoModel, NoModel)}

\* what a step of parseSessionFile leaves alone
outsideParser == <<messages, planConfig, now, pc, uniqueMessages, sortedMessages,
                   recentMessages, idx, currentSet, sets, activeSet, metrics,
                   modelArg, usageArg, tierResult, costResult, pcPricing,
                   planLimits, planCalls, extensionVars>>

\* the file is open and the loop is before its first line
InitParser ==
    /\ EngineIdle
    /\ PricingIdle
    /\ PlansIdle
    /\ ExtensionIdle
    /\ lines \in SeqsUpTo(SessionLines, MaxLines)
    /\ lineIdx = 1
    /\ fileMessages = << >>
    /\ consoleWarns = 0
    /\ consoleErrors = 0
    /\ pcParser = "reading"

\* the body of the loop without the inner try: a line that throws ends the
\* loop in the outer catch
ParseLineNoInnerCatch ==
    /\ pcParser = "reading"
    /\ lineIdx <= Len(lines)
    /\ LET line == lines[lineIdx] IN
         IF line.kind = "blank"
         THEN UNCHANGED <<fileMessages, consoleWarns, consoleErrors, pcParser>>
         ELSE IF Throws(line)
         THEN /\ consoleErrors' = consoleErrors + 1
              /\ pcParser' = "returned"
              /\ UNCHANGED <<fileMessages, consoleWarns>>
         ELSE IF Passes(line)
         THEN /\ fileMessages' = Append(fileMessages, BuildMessage(line, ProjectDir, ParseClock))
              /\ UNCHANGED <<consoleWarns, consoleErrors, pcParser>>
         ELSE UNCHANGED <<fileMessages, consoleWarns, consoleErrors, pcParser>>
    /\ lineIdx' = lineIdx + 1
    /\ UNCHANGED lines
    /\ UNCHANGED outsideParser

\* one turn of the `for await` loop, lines 18-79
ParseLine ==
    /\ pcParser = "reading"
    /\ lineIdx <= Len(lines)
    /\ LET line == lines[lineIdx] IN
         IF line.kind = "blank"
         THEN UNCHANGED <<fileMessages, consoleWarns>>
         ELSE IF Throws(line)
         THEN /\ consoleWarns' = consoleWarns + 1
              /\ UNCHANGED fileMessages
         ELSE IF Passes(line)
         THEN /\ fileMessages' = Append(fileMessages, BuildMessage(line, ProjectDir, ParseClock))
              /\ UNCHANGED consoleWarns
         ELSE UNCHANGED <<fileMessages, consoleWarns>>
    /\ lineIdx' = lineIdx + 1
    /\ UNCHANGED <<lines, consoleErrors, pcParser>>
    /\ UNCHANGED outsideParser

\* the stream fails (the file cannot be opened or read on): the outer catch
\* logs the error and the messages read so far are returned
ParseReadFails ==
    /\ pcParser = "reading"
    /\ lineIdx <= Len(lines)
    /\ consoleErrors' = consoleErrors + 1
    /\ pcParser' = "returned"
    /\ UNCHANGED <<lines, lineIdx, fileMessages, consoleWarns>>
    /\ UNCHANGED outsideParser

\* the end of the file: return messages
ParseReturn ==
    /\ pcParser = "reading"
    /\ lineIdx > Len(lines)
    /\ pcParser' = "returned"
    /\ UNCHANGED <<lines, lineIdx, fileMessages, consoleWarns, consoleErrors>>
    /\ UNCHANGED outsideParser

\* updateMetrics collects the messages of the file and, unless there is
\* none, calls calculateSessionMetrics with them
CollectAndCalculate ==
    /\ pcParser = "returned"
    /\ pcParser' = "collected"
    /\ IF Len(fileMessages) = 0
       THEN UNCHANGED <<messages, now, pc>>
       ELSE /\ messages' = fileMessages
            /\ now' = EngineClock
            /\ pc' = "start"
    /\ UNCHANGED <<planConfig, uniqueMessages, sortedMessages, recentMessages,
                   idx, currentSet, sets, activeSet, metrics>>
    /\ UNCHANGED <<lines, lineIdx, fileMessages, consoleWarns, consoleErrors>>
    /\ UNCHANGED <<pricingVars, planVars, extensionVars>>

NextParser ==
    \/ ParseLine
    \/ ParseReadFails
    \/ ParseReturn
    \/ CollectAndCalculate
    \/ Next

SpecParser == InitParser /\ [][NextParser]_vars

-----------------------------------------------------------------------------
(* getPlanConfig *)

\* most calls of getPlanConfig followed
MaxPlanCalls == 2

Plans == {"pro", "max5", "max20", "custom"}

\* argument `customTokenLimit`: << >> when it is not supplied, <<n>> when it
\* is the number n
NoLimit == << >>

CustomTokenLimits == {NoLimit, <<0>>, <<1>>, <<44000>>, <<100000>>}

\* `customTokenLimit` is truthy
Supplied(customTokenLimit) == customTokenLimit # NoLimit /\ customTokenLimit[1] # 0

\* the override of the token limit for the custom plan
Override(config, plan, customTokenLimit) ==
    IF plan = "custom" /\ Supplied(customTokenLimit)
    THEN [config EXCEPT !.tokenLimit = customTokenLimit[1]]
    ELSE config

\* getPlanConfig without the copy: config is the entry of the table itself
GetPlanConfigNoCopy ==
    /\ Len(planCalls) < MaxPlanCalls
    /\ \E plan \in Plans, customTokenLimit \in CustomTokenLimits :
         LET config == Override(planLimits[plan], plan, customTokenLimit)
         IN  /\ planLimits' = [planLimits EXCEPT ![plan] = config]
             /\ planCalls' = Append(planCalls,
                    [plan |-> plan, customTokenLimit |-> customTokenLimit,
                     config |-> config])
    /\ UNCHANGED <<engineVars, pricingVars, parserVars, extensionVars>>

\* one call: config is a copy of the entry, so the table is left alone
GetPlanConfig ==
    /\ Len(planCalls) < MaxPlanCalls
    /\ \E plan \in Plans, customTokenLimit \in CustomTokenLimits :
         LET config == Override(planLimits[plan], plan, customTokenLimit)
         IN  /\ planLimits' = planLimits
             /\ planCalls' = Append(planCalls,
                    [plan |-> plan, customTokenLimit |-> customTokenLimit,
                     config |-> config])
    /\ UNCHANGED <<engineVars, pricingVars, parserVars, extensionVars>>

InitPlans ==
    /\ EngineIdle
    /\ PricingIdle
    /\ ParserIdle
    /\ PlansIdle
    /\ ExtensionIdle

NextPlans == GetPlanConfig

SpecPlans == InitPlans /\ [][NextPlans]_vars

-----------------------------------------------------------------------------
(* The extension: timers, updateMetrics and the notifications *)

(* The clock moves in steps of ClockStep; the handlers run at any of its   *)
(* values and in any order.  An updateMetrics run reads the files while it *)
(* awaits and then, in one synchronous stretch, calculates the metrics at  *)
(* the clock value of that moment and updates the state.  The data         *)
(* directory is taken to exist and to be readable.                         *)

SEC_MS == 1000

\* the elapsed time after which the warning is due
NO_NEW_SESSION_MS == 30000

\* granularity of the clock
ClockStep == 15 * SEC_MS

\* how far the clock is followed, in steps
MaxClockSteps == 3

\* most updateMetrics runs awaiting their file reads at once
MaxRuns == 2

\* most events in the session files
MaxLog == 2

\* the session on disk at activation: one event at 00:17, window 00:00-05:00
FirstEvent == Message("a", "r1", At(0, 17), NoModel, "p1", Usage(100, 50, 0, 0))

\* the clock at activation: one step before the end of that window
StartClock == At(5, 0) - ClockStep

MaxClock == StartClock + MaxClockSteps * ClockStep

\* what statusBar.update(session, planConfig) shows; every caller passes the
\* planConfig of the extension.  The limits are those the three usage figures
\* are set against in the text and in the percentages.
Update(session) ==
    IF session = Null THEN [text |-> "No Session"]
    ELSE [text |-> "Reset",
          timeRemaining |-> IF session.isActive THEN session.timeRemaining ELSE 0,
          sessionEndTime |-> session.sessionEndTime,
          costLimit |-> session.costLimit,
          tokenLimit |-> planConfig.tokenLimit,
          messageLimit |-> session.messageLimit]

\* what statusBar.showRefreshing() shows
ShowRefreshing == [text |-> "Refreshing"]

\* what statusBar.showInitializing() shows
ShowInitializing == [text |-> "Initializing"]

SessionEndedMessage == "Claude session ended"

NoNewSessionMessage == "No new session detected"

\* a notification as it is recorded: its text and the instant it is shown
Notification(message) == [message |-> message, at |-> clock]

\* the warning given whatever the elapsed time
ElapsedEnoughAlways(elapsedTime) == elapsedTime >= 0

\* elapsedTime >= 30000
ElapsedEnough(elapsedTime) == elapsedTime >= NO_NEW_SESSION_MS

\* activate(): the state is declared, the status bar shows the start-up
\* text and updateMetrics is called at once
InitExtension ==
    /\ EngineIdle
    /\ PricingIdle
    /\ ParserIdle
    /\ PlansIdle
    /\ clock = StartClock
    /\ logFile \in {<< >>, <<FirstEvent>>}
    /\ currentSession = Null
    /\ isRefreshing = FALSE
    /\ sessionJustEnded = FALSE
    /\ refreshingStartTime = NoTime
    /\ statusBarItem = ShowInitializing
    /\ shown = << >>
    /\ runs = <<logFile>>
    /\ timeoutPending = 0
    /\ ticked = FALSE
    /\ notifyOnSessionEnded \in BOOLEAN
    /\ notifyNoNewSession \in BOOLEAN

\* time passes; the one-second timer has fired since the last step of the
\* clock
AdvanceClock ==
    /\ clock < MaxClock
    /\ ticked
    /\ clock' = clock + ClockStep
    /\ ticked' = FALSE
    /\ UNCHANGED <<logFile, currentSession, isRefreshing, sessionJustEnded,
                   refreshingStartTime, statusBarItem, shown, runs, timeoutPending,
                   notifyOnSessionEnded, notifyNoNewSession>>
    /\ UNCHANGED <<engineVars, pricingVars, parserVars, planVars>>

\* Claude Code appends an event to a session file
LogEvent ==
    /\ Len(logFile) < MaxLog
    /\ logFile' = Append(logFile,
                         Message(IdOf(Len(logFile) + 1), "r1", clock, NoModel, "p1",
                                 Usage(100, 50, 0, 0)))
    /\ UNCHANGED <<clock, currentSession, isRefreshing, sessionJustEnded,
                   refreshingStartTime, statusBarItem, shown, runs, timeoutPending,
                   ticked, notifyOnSessionEnded, notifyNoNewSession>>
    /\ UNCHANGED <<engineVars, pricingVars, parserVars, planVars>>

\* updateMetrics is called by the refresh interval, the file watcher or the
\* refresh command: the run begins and awaits the files as they are now
StartUpdateMetrics ==
    /\ Len(runs) < MaxRuns
    /\ runs' = Append(runs, logFile)
    /\ UNCHANGED <<clock, logFile, currentSession, isRefreshing, sessionJustEnded,
                   refreshingStartTime, statusBarItem, shown, timeoutPending,
                   ticked, notifyOnSessionEnded, notifyNoNewSession>>
    /\ UNCHANGED <<engineVars, pricingVars, parserVars, planVars>>

\* the timeout set by the timer at the expiry fires and calls updateMetrics
TimeoutFires ==
    /\ timeoutPending > 0
    /\ Len(runs) < MaxRuns
    /\ timeoutPending' = timeoutPending - 1
    /\ runs' = Append(runs, logFile)
    /\ UNCHANGED <<clock, logFile, currentSession, isRefreshing, sessionJustEnded,
                   refreshingStartTime, statusBarItem, shown,
                   ticked, notifyOnSessionEnded, notifyNoNewSession>>
    /\ UNCHANGED <<engineVars, pricingVars, parserVars, planVars>>

\* the test that takes whatever calculateSessionMetrics returns, active or not
FoundSessionAny(result) == result # Null

\* if (metrics && metrics.isActive), line 111
FoundActiveSession(result) == result # Null /\ result.isActive

\* a run has its messages: lines 98-166 of updateMetrics
FinishUpdateMetrics ==
    \E r \in 1..Len(runs) :
      LET allMessages == runs[r]
          result == CalculateSessionMetrics(allMessages, planConfig, clock)
      IN  /\ runs' = SubSeq(runs, 1, r - 1) \o SubSeq(runs, r + 1, Len(runs))
          /\ IF Len(allMessages) = 0
             THEN /\ currentSession' = Null
                  /\ statusBarItem' = Update(Null)
                  /\ UNCHANGED <<isRefreshing, sessionJustEnded, refreshingStartTime, shown>>
             ELSE IF FoundActiveSession(result)
             THEN /\ currentSession' = result
                  /\ isRefreshing' = FALSE
                  /\ sessionJustEnded' = FALSE
                  /\ refreshingStartTime' = NoTime
                  /\ statusBarItem' = Update(result)
                  /\ UNCHANGED shown
             ELSE /\ IF /\ sessionJustEnded
                        /\ refreshingStartTime # NoTime
                        /\ ElapsedEnough(clock - refreshingStartTime)
                     THEN /\ shown' = IF notifyNoNewSession
                                      THEN Append(shown, Notification(NoNewSessionMessage))
                                      ELSE shown
                          /\ sessionJustEnded' = FALSE
                          /\ refreshingStartTime' = NoTime
                     ELSE UNCHANGED <<shown, sessionJustEnded, refreshingStartTime>>
                  /\ currentSession' = Null
                  /\ isRefreshing' = FALSE
                  /\ statusBarItem' = Update(Null)
          /\ UNCHANGED <<clock, logFile, timeoutPending, ticked,
                         notifyOnSessionEnded, notifyNoNewSession>>
          /\ UNCHANGED <<engineVars, pricingVars, parserVars, planVars>>

\* the one-second timer, lines 183-235
TimerTick ==
    /\ IF currentSession # Null /\ currentSession.isActive
       THEN LET timeRemaining == Max(0, currentSession.sessionEndTime - clock)
                updatedSession == [currentSession EXCEPT !.timeRemaining = timeRemaining]
            IN  IF timeRemaining = 0 /\ ~isRefreshing
                THEN /\ isRefreshing' = TRUE
                     /\ sessionJustEnded' = TRUE
                     /\ refreshingStartTime' = clock
                     /\ statusBarItem' = ShowRefreshing
                     /\ shown' = IF notifyOnSessionEnded
                                 THEN Append(shown, Notification(SessionEndedMessage))
                                 ELSE shown
                     /\ timeoutPending' = timeoutPending + 1
                ELSE /\ statusBarItem' = Update(updatedSession)
                     /\ UNCHANGED <<isRefreshing, sessionJustEnded, refreshingStartTime,
                                    shown, timeoutPending>>
       ELSE IF currentSession # Null
       THEN /\ statusBarItem' = Update(currentSession)
            /\ UNCHANGED <<isRefreshing, sessionJustEnded, refreshingStartTime,
                           shown, timeoutPending>>
       ELSE UNCHANGED <<isRefreshing, sessionJustEnded, refreshingStartTime,
                        statusBarItem, shown, timeoutPending>>
    /\ ticked' = TRUE
    /\ UNCHANGED <<clock, logFile, currentSession, runs,
                   notifyOnSessionEnded, notifyNoNewSession>>
    /\ UNCHANGED <<engineVars, pricingVars, parserVars, planVars>>

NextExtension ==
    \/ AdvanceClock
    \/ LogEvent
    \/ StartUpdateMetrics
    \/ TimeoutFires
    \/ FinishUpdateMetrics
    \/ TimerTick

SpecExtension == InitExtension /\ [][NextExtension]_vars

\* the plans the user changes between
PlanChoices == {"pro", "max5"}

\* loadPlanConfig() when the plan of the settings is `plan` and
\* customTokenLimit is left at its default
LoadPlanConfig(plan) == Override(planLimits[plan], plan, <<44000>>)

\* the settings of claudeStatusBar change: the plan is loaded and
\* updateMetrics is called
ConfigurationChanged ==
    /\ Len(runs) < MaxRuns
    /\ \E plan \in PlanChoices :
          /\ plan # planConfig.plan
          /\ planConfig' = LoadPlanConfig(plan)
    /\ runs' = Append(runs, logFile)
    /\ UNCHANGED <<clock, logFile, currentSession, isRefreshing, sessionJustEnded,
                   refreshingStartTime, statusBarItem, shown, timeoutPending,
                   ticked, notifyOnSessionEnded, notifyNoNewSession>>
    /\ UNCHANGED <<messages, now, pc, uniqueMessages, sortedMessages,
                   recentMessages, idx, currentSet, sets, activeSet, metrics>>
    /\ UNCHANGED <<pricingVars, parserVars, planVars>>

\* a plan command, lines 279-304: the plan is written to the settings, which
\* sets off the change of configuration above when the plan is another one,
\* then the plan is loaded and the status bar updated with currentSession
UpdatePlan ==
    /\ \E plan \in PlanChoices :
          /\ planConfig' = LoadPlanConfig(plan)
          /\ IF plan # planConfig.plan
             THEN Len(runs) < MaxRuns /\ runs' = Append(runs, logFile)
             ELSE runs' = runs
    /\ UNCHANGED <<clock, logFile, currentSession, isRefreshing, sessionJustEnded,
                   refreshingStartTime, shown, timeoutPending,
                   ticked, notifyOnSessionEnded, notifyNoNewSession>>
    /\ statusBarItem' = Update(currentSession)'
    /\ UNCHANGED <<messages, now, pc, uniqueMessages, sortedMessages,
                   recentMessages, idx, currentSet, sets, activeSet, metrics>>
    /\ UNCHANGED <<pricingVars, parserVars, planVars>>

NextPlanChange ==
    \/ ConfigurationChanged
    \/ UpdatePlan
    \/ NextExtension

SpecPlanChange == InitExtension /\ [][NextPlanChange]_vars

\* activation with a session on disk and both notifications enabled
InitNotifying ==
    /\ InitExtension
    /\ logFile = <<FirstEvent>>
    /\ notifyOnSessionEnded
    /\ notifyNoNewSession

\* file reads that never return: no run leaves the list
RunEndsNever == FALSE

\* a run that awaits its files leaves the list of runs (and then goes through
\* FinishUpdateMetrics, the one action that shortens the list)
RunEnds ==
    \E r \in 1..Len(runs) :
       runs' = SubSeq(runs, 1, r - 1) \o SubSeq(runs, r + 1, Len(runs))

\* the timers fire, a run that awaits its files gets them, and time passes
SpecExtensionFair ==
    /\ InitNotifying
    /\ [][NextExtension]_vars
    /\ WF_vars(AdvanceClock)
    /\ WF_vars(TimerTick)
    /\ WF_vars(StartUpdateMetrics)
    /\ WF_vars(TimeoutFires)
    /\ WF_runs(RunEnds)

-----------------------------------------------------------------------------
(* Calls of calculateSessionMetrics that vary tier, project and usage *)

\* longest message list in the runs that vary tier, project and usage
MaxAggregateMsgs == 3

\* model, project and usage of a message: one per tier, one without a
\* project, one without usage
AggregateShapes ==
    {<<OpusName, "p1", Usage(100, 50, 0, 0)>>,
     <<HaikuName, "p2", Usage(7, 0, 1000, 10)>>,
     <<NoModel, NoProject, Usage(100, 50, 0, 0)>>,
     <<SonnetName, "p1", NoUsage>>}

\* messages of one window; three ids, so that a list may repeat a key
AggregateMessages ==
    {Message(id, "r1", At(0, 17), f[1], f[2], f[3]) :
        id \in {"a", "b", "c"}, f \in AggregateShapes}

InitAggregate ==
    EngineEntry(SeqsUpTo(AggregateMessages, MaxAggregateMsgs), {At(0, 20)}) /\ OutsideEngineIdle

SpecAggregate == InitAggregate /\ [][Next]_vars

-----------------------------------------------------------------------------
(* Two updateMetrics runs over one long chain of events *)

\* longest chain of events
MaxChain == 49

\* n events four hours apart, the first at 00:30: eight days of steady use
ChainMessages(n) ==
    [k \in 1..n |->
        Message(ToString(k), "r1", At(4 * (k - 1), 30), NoModel, "p1",
                Usage(100, 50, 0, 0))]

ChainInputs == {ChainMessages(n) : n \in {1, 2, MaxChain}}

\* the clock at the first run: 192 hours after the first event of the chain
ChainFirstNow == At(192, 30)

\* the clock at the later runs
ChainLaterNowTimes == {At(192, 45), At(193, 30)}

InitChain == EngineEntry(ChainInputs, {ChainFirstNow}) /\ OutsideEngineIdle

\* extension.ts 109-124 and the next run: the first run found an active
\* session and displays it; a later run reads the same files and calls
\* calculateSessionMetrics again
ChainNextRun ==
    /\ pc = "done"
    /\ metrics # Null
    /\ metrics.isActive
    /\ currentSession = Null
    /\ currentSession' = metrics
    /\ isRefreshing' = FALSE
    /\ sessionJustEnded' = FALSE
    /\ refreshingStartTime' = NoTime
    /\ statusBarItem' = Update(metrics)
    /\ now' \in ChainLaterNowTimes
    /\ pc' = "start"
    /\ uniqueMessages' = << >>
    /\ sortedMessages' = << >>
    /\ recentMessages' = << >>
    /\ idx' = 1
    /\ currentSet' = Null
    /\ sets' = << >>
    /\ activeSet' = Null
    /\ metrics' = Null
    /\ UNCHANGED <<messages, planConfig>>
    /\ UNCHANGED <<clock, logFile, shown, runs, timeoutPending, ticked,
                   notifyOnSessionEnded, notifyNoNewSession>>
    /\ UNCHANGED <<pricingVars, parserVars, planVars>>

NextChain ==
    \/ ChainNextRun
    \/ Next

SpecChain == InitChain /\ [][NextChain]_vars

-----------------------------------------------------------------------------
(* Properties of the window partitioning *)

RECURSIVE Flatten(_)
\* the members of the windows of ss, one window after the other
Flatten(ss) ==
    IF Len(ss) = 0 THEN << >> ELSE Head(ss).messages \o Flatten(Tail(ss))

\* the places <<window, position>> at which message m sits in ss
PlacesOf(ss, m) ==
    {w \in (1..Len(ss)) \X (1..MaxMsgs + 1) :
        /\ w[2] <= Len(ss[w[1]].messages)
        /\ ss[w[1]].messages[w[2]] = m}

Grouped == pc \in {"select", "aggregate"} \/ (pc = "done" /\ Len(recentMessages) > 0)

\* C1: once groupIntoFiveHourSets has returned, every message it was given
\* sits in exactly one emitted window, the windows taken one after the other
\* give back the input list (none lost, none duplicated, order kept), the
\* starts of the windows never decrease and no message of an earlier window
\* is later than a message of a later window.
C1_WindowCoverage ==
    Grouped =>
      /\ \A k \in 1..Len(recentMessages) :
            Cardinality(PlacesOf(sets, recentMessages[k])) = 1
      /\ Flatten(sets) = recentMessages
      /\ \A i \in 1..Len(sets) : \A j \in 1..Len(sets) :
            i < j =>
              /\ sets[i].startTime <= sets[j].startTime
              /\ \A a \in 1..Len(sets[i].messages) : \A b \in 1..Len(sets[j].messages) :
                    sets[i].messages[a].timestamp <= sets[j].messages[b].timestamp

C1_Witness ==
    /\ pc = "select"
    /\ Len(sets) >= 2
    /\ Len(recentMessages) >= 3

-----------------------------------------------------------------------------
(* Properties of deduplication *)

\* the dedup key as the claim words it
KeyOf(m) == m.id \o ":" \o m.requestId

\* msgs without every non-first occurrence of a key
FirstOccurrences(msgs) ==
    LET keep == {i \in 1..Len(msgs) : \A j \in 1..(i - 1) : KeyOf(msgs[j]) # KeyOf(msgs[i])}
        F[i \in 0..Len(msgs)] ==
          IF i = 0 THEN << >>
          ELSE IF i \in keep THEN Append(F[i - 1], msgs[i]) ELSE F[i - 1]
    IN  F[Len(msgs)]

\* C3: the value returned for a message list is the value returned for the
\* list from which every later occurrence of a key id:requestId has been
\* deleted, whatever timestamp, usage or other fields the later
\* occurrences carry.
C3_DedupFirstWins ==
    pc = "done" =>
      metrics = CalculateSessionMetrics(FirstOccurrences(messages), planConfig, now)

C3_Witness ==
    /\ pc = "done"
    /\ metrics # Null
    /\ \E i \in 1..Len(messages) : \E j \in 1..Len(messages) :
          /\ i < j
          /\ KeyOf(messages[i]) = KeyOf(messages[j])
          /\ messages[i].usage # messages[j].usage
          /\ messages[j].timestamp >= metrics.startTime
          /\ messages[j].timestamp < metrics.sessionEndTime

-----------------------------------------------------------------------------
(* Properties of the token and cost totals *)

RECURSIVE SumInputOutput(_)
\* sum of input_tokens + output_tokens over a list of messages with usage
SumInputOutput(msgs) ==
    IF Len(msgs) = 0 THEN 0
    ELSE Head(msgs).usage.input_tokens + Head(msgs).usage.output_tokens
           + SumInputOutput(Tail(msgs))

\* the counted events of a window: those with usage, first occurrence of
\* their key among the members
CountedEvents(set) ==
    SelectSeq(FirstOccurrences(set.messages), LAMBDA m : m.usage # NoUsage)

\* msgs with the cache counters of the i-th message set to cc and cr
WithCache(msgs, i, cc, cr) ==
    [msgs EXCEPT ![i].usage.cache_creation_input_tokens = cc,
                 ![i].usage.cache_read_input_tokens = cr]

\* cache counter values tried in place of the ones an event carries
CacheValues == {0, 1000}

\* C4: totalTokens is the sum of input_tokens + output_tokens over the
\* counted events of the active window, and giving any event other cache
\* counters leaves totalTokens (and whether a Metrics is returned) unchanged.
C4_QuotaExclusion ==
    pc = "done" =>
      /\ metrics # Null => metrics.totalTokens = SumInputOutput(CountedEvents(activeSet))
      /\ \A i \in 1..Len(messages) : \A cc \in CacheValues : \A cr \in CacheValues :
            LET other == CalculateSessionMetrics(WithCache(messages, i, cc, cr),
                                                 planConfig, now)
            IN  IF metrics = Null THEN other = Null
                ELSE other # Null /\ other.totalTokens = metrics.totalTokens

C4_Witness ==
    /\ pc = "done"
    /\ metrics # Null
    /\ metrics.messageCount >= 2
    /\ metrics.cacheCreationTokens > 0
    /\ metrics.cacheReadTokens > 0
    /\ metrics.totalTokens = metrics.inputTokens + metrics.outputTokens

\* numbers of cache tokens added to an event
CacheDeltas == {1, 4, 34}

\* msgs with cc cache-creation and cr cache-read tokens added to message i
AddCache(msgs, i, cc, cr) ==
    [msgs EXCEPT ![i].usage.cache_creation_input_tokens = @ + cc,
                 ![i].usage.cache_read_input_tokens = @ + cr]

\* the indices of `messages` that are counted in the returned Metrics
CountedIndices ==
    LET counted == CountedEvents(activeSet)
        members == {counted[k] : k \in 1..Len(counted)}
    IN  {i \in 1..Len(messages) : messages[i] \in members}

\* the cost of cc cache-creation and cr cache-read tokens at the rates of
\* message m, in hundredths of a micro-dollar
AddedCost(m, cc, cr) ==
    cc * MODEL_PRICING[GetModelTier(m.model)].cacheCreation
      + cr * MODEL_PRICING[GetModelTier(m.model)].cacheRead

\* C5 as stated: adding any positive number of cache-creation or cache-read
\* tokens to a counted event changes totalCost and keeps totalTokens.
C5_CacheAlwaysChangesCost ==
    (pc = "done" /\ metrics # Null) =>
      \A i \in CountedIndices : \A d \in CacheDeltas :
         LET withCreation == CalculateSessionMetrics(AddCache(messages, i, d, 0), planConfig, now)
             withRead == CalculateSessionMetrics(AddCache(messages, i, 0, d), planConfig, now)
         IN  /\ withCreation.totalCost # metrics.totalCost
             /\ withRead.totalCost # metrics.totalCost
             /\ withCreation.totalTokens = metrics.totalTokens
             /\ withRead.totalTokens = metrics.totalTokens

\* C5 amended: adding cache-creation and cache-read tokens to a counted
\* event keeps totalTokens, never lowers totalCost, and raises totalCost
\* whenever the added tokens cost more than one micro-dollar at the event's
\* tier (a smaller addition can vanish in the rounding to 6 decimals).
C5_CacheCountsTowardCost ==
    (pc = "done" /\ metrics # Null) =>
      \A i \in CountedIndices : \A cc \in CacheDeltas \cup {0} : \A cr \in CacheDeltas \cup {0} :
         LET more == CalculateSessionMetrics(AddCache(messages, i, cc, cr), planConfig, now)
         IN  /\ more.totalTokens = metrics.totalTokens
             /\ more.totalCost >= metrics.totalCost
             /\ AddedCost(messages[i], cc, cr) > 100 => more.totalCost > metrics.totalCost

\* a haiku event to which one more cache-read token adds nothing, and to
\* which 34 more add a micro-dollar
C5_Witness ==
    /\ pc = "done"
    /\ metrics # Null
    /\ \E i \in CountedIndices :
          /\ GetModelTier(messages[i].model) = "haiku"
          /\ CalculateSessionMetrics(AddCache(messages, i, 0, 1), planConfig, now).totalCost
               = metrics.totalCost
          /\ CalculateSessionMetrics(AddCache(messages, i, 0, 34), planConfig, now).totalCost
               > metrics.totalCost

-----------------------------------------------------------------------------
(* Properties of the active window selection and of the timing fields *)

\* the windows emitted by the partitioning of this call (none when the call
\* returned before partitioning)
Emitted == IF pc \in {"select", "aggregate", "done"} THEN sets ELSE << >>

\* indices of the emitted windows with start <= now <= end
Candidates == {i \in 1..Len(Emitted) : Emitted[i].startTime <= now /\ now <= Emitted[i].endTime}

LastCandidate == CHOOSE i \in Candidates : \A j \in Candidates : j <= i

\* C6: a Metrics is returned exactly when some emitted window has
\* start <= now <= end; its start, end and lastMessageTime are those of the
\* last such window; otherwise null is returned.
C6_ActiveWindowSelection ==
    pc = "done" =>
      /\ metrics # Null <=> Candidates # {}
      /\ metrics # Null =>
            /\ metrics.startTime = sets[LastCandidate].startTime
            /\ metrics.sessionEndTime = sets[LastCandidate].endTime
            /\ metrics.lastMessageTime = sets[LastCandidate].lastMessageTime

\* two windows contain now and the later one is reported
C6_Witness ==
    /\ pc = "done"
    /\ metrics # Null
    /\ Cardinality(Candidates) = 2
    /\ metrics.startTime = sets[LastCandidate].startTime

\* C7 as stated: whenever now equals the end of an emitted window, a Metrics
\* with isActive = false and timeRemaining = 0 is returned.
C7_ExpiryInstantAnyWindow ==
    (pc = "done" /\ \E i \in 1..Len(Emitted) : now = Emitted[i].endTime) =>
      /\ metrics # Null
      /\ metrics.isActive = FALSE
      /\ metrics.timeRemaining = 0

\* C7 amended: whenever now equals the end of an emitted window and no later
\* emitted window has started by now, a Metrics for that window with
\* isActive = false and timeRemaining = 0 is returned.
C7_ExpiryInstant ==
    pc = "done" =>
      \A i \in 1..Len(Emitted) :
         ( /\ now = Emitted[i].endTime
           /\ \A j \in (i + 1)..Len(Emitted) : Emitted[j].startTime > now )
         =>
         ( /\ metrics # Null
           /\ metrics.sessionEndTime = Emitted[i].endTime
           /\ metrics.startTime = Emitted[i].startTime
           /\ metrics.isActive = FALSE
           /\ metrics.timeRemaining = 0 )

C7_Witness ==
    /\ pc = "done"
    /\ metrics # Null
    /\ now = metrics.sessionEndTime
    /\ metrics.isActive = FALSE
    /\ Len(sets) >= 2

\* C8: in a returned Metrics the end is the start plus five hours,
\* timeRemaining is max(0, end - now) and lies between 0 and five hours, and
\* isActive holds exactly when timeRemaining > 0, that is when now < end.
C8_Timing ==
    (pc = "done" /\ metrics # Null) =>
      /\ metrics.sessionEndTime = metrics.startTime + 5 * HOUR_MS
      /\ metrics.timeRemaining =
            (IF metrics.sessionEndTime - now > 0 THEN metrics.sessionEndTime - now ELSE 0)
      /\ 0 <= metrics.timeRemaining
      /\ metrics.timeRemaining <= 5 * HOUR_MS
      /\ metrics.isActive <=> metrics.timeRemaining > 0
      /\ metrics.isActive <=> now < metrics.sessionEndTime

C8_Witness ==
    /\ pc = "done"
    /\ metrics # Null
    /\ metrics.isActive
    /\ 0 < metrics.timeRemaining
    /\ metrics.timeRemaining < 5 * HOUR_MS

-----------------------------------------------------------------------------
(* Properties of the staleness filter *)

Stale(m) == m.timestamp < now - 192 * HOUR_MS

\* every window built so far, the one under construction included
WindowsSoFar ==
    sets \o (IF pc = "group" /\ currentSet # Null THEN <<currentSet>> ELSE << >>)

Filtered == pc \in {"group", "select", "aggregate"} \/ (pc = "done" /\ Len(messages) > 0)

-----------------------------------------------------------------------------
(* Properties of the pricing tier *)

\* character c is letter l in lower or upper case
IsLetter(c, l) ==
    \/ c = l
    \/ \E p \in {<<"o", "O">>, <<"p", "P">>, <<"u", "U">>, <<"s", "S">>, <<"h", "H">>,
                 <<"a", "A">>, <<"i", "I">>, <<"k", "K">>} : l = p[1] /\ c = p[2]

\* name contains word, letter case ignored
ContainsWord(name, word) ==
    \E i \in 1..Len(name) :
       /\ i + Len(word) - 1 <= Len(name)
       /\ \A j \in 1..Len(word) : IsLetter(name[i + j - 1], word[j])

\* the cost of usage u at the rates of one tier, in micro-dollars
CostAtTier(u, tier) ==
    ( u.input_tokens * MODEL_PRICING[tier].input
      + u.output_tokens * MODEL_PRICING[tier].output
      + u.cache_creation_input_tokens * MODEL_PRICING[tier].cacheCreation
      + u.cache_read_input_tokens * MODEL_PRICING[tier].cacheRead + 50 ) \div 100

\* C10: getModelTier returns opus for a name that contains "opus" in any
\* letter case, else haiku for a name that contains "haiku", else sonnet
\* (absent and unknown names included); a name with "haiku" and without
\* "opus" is priced at the haiku rates.
C10_TierResolution ==
    /\ pcPricing \in {"cost", "done"} =>
          tierResult = (IF ContainsWord(modelArg, <<"o", "p", "u", "s">>) THEN "opus"
                        ELSE IF ContainsWord(modelArg, <<"h", "a", "i", "k", "u">>) THEN "haiku"
                        ELSE "sonnet")
    /\ ( /\ pcPricing = "done"
         /\ ContainsWord(modelArg, <<"h", "a", "i", "k", "u">>)
         /\ ~ContainsWord(modelArg, <<"o", "p", "u", "s">>) )
       => costResult = CostAtTier(usageArg, "haiku")

\* 'claude-3-haiku' has been priced
C10_Witness ==
    /\ pcPricing = "done"
    /\ modelArg = <<"c", "l", "a", "u", "d", "e", "-", "3", "-", "h", "a", "i", "k", "u">>
    /\ tierResult = "haiku"
    /\ costResult = 12

-----------------------------------------------------------------------------
(* Properties of the cost total *)

\* the rates of the claim, in dollars per million tokens times 100
ClaimRates ==
    [opus   |-> <<1500, 7500, 1875, 150>>,
     sonnet |-> <<300, 1500, 375, 30>>,
     haiku  |-> <<25, 125, 30, 3>>]

\* the unrounded cost of message m in hundredths of a micro-dollar
RawCost(m) ==
    LET r == ClaimRates[GetModelTier(m.model)]
    IN  m.usage.input_tokens * r[1] + m.usage.output_tokens * r[2]
          + m.usage.cache_creation_input_tokens * r[3]
          + m.usage.cache_read_input_tokens * r[4]

\* c micro-dollars is raw hundredths rounded to the nearest micro-dollar,
\* a half rounded up
IsRounded(c, raw) == 100 * c - 50 <= raw /\ raw < 100 * c + 50

RECURSIVE SumRoundedCosts(_)
SumRoundedCosts(msgs) ==
    IF Len(msgs) = 0 THEN 0
    ELSE (CHOOSE c \in {RawCost(Head(msgs)) \div 100, RawCost(Head(msgs)) \div 100 + 1} :
            IsRounded(c, RawCost(Head(msgs))))
           + SumRoundedCosts(Tail(msgs))

\* C11: totalCost is the sum over the counted events of the event's cost at
\* its tier's rates rounded to 6 decimals (a whole number of micro-dollars);
\* one sonnet event with input=100 and output=50 gives 0.00105 dollars.
C11_Cost ==
    (pc = "done" /\ metrics # Null) =>
      /\ metrics.totalCost = SumRoundedCosts(CountedEvents(activeSet))
      /\ ( /\ Len(messages) = 1
           /\ GetModelTier(messages[1].model) = "sonnet"
           /\ messages[1].usage = Usage(100, 50, 0, 0) )
         => metrics.totalCost = 1050

\* two events whose unrounded costs are not whole micro-dollars; the sum of
\* the rounded costs differs from the rounded sum
C11_Witness ==
    /\ pc = "done"
    /\ metrics # Null
    /\ metrics.messageCount = 2
    /\ \A i \in 1..2 : RawCost(messages[i]) % 100 = 50
    /\ metrics.totalCost * 100 # RawCost(messages[1]) + RawCost(messages[2])

-----------------------------------------------------------------------------
(* Properties of the burn rates *)

\* the events of the active window in the trailing interval [t - 10min, t]
TrailingEvents(set, t) ==
    SelectSeq(set.messages,
              LAMBDA msg : t - BURN_RATE_WINDOW_MS <= msg.timestamp /\ msg.timestamp <= t)

TrailingTokens(set, t) ==
    LET sub == TrailingEvents(set, t)
    IN  SumValues(sub, [msg \in {sub[i] : i \in 1..Len(sub)} |-> TokenValue(msg)])

TrailingCost(set, t) ==
    LET sub == TrailingEvents(set, t)
    IN  SumValues(sub, [msg \in {sub[i] : i \in 1..Len(sub)} |-> CostValue(msg)])

TrailingCount(set, t) ==
    LET sub == TrailingEvents(set, t)
    IN  SumValues(sub, [msg \in {sub[i] : i \in 1..Len(sub)} |-> MessageValue(msg)])

\* C12: each of the three burn rates sums values only over the events of the
\* active window with now - 10min <= timestamp <= now; an event older than
\* 10 minutes or later than now never contributes.
C12_BurnRateSubWindow ==
    (pc = "done" /\ metrics # Null) =>
      /\ metrics.tokenBurnRate.value \in {0, TrailingTokens(activeSet, now)}
      /\ metrics.costBurnRate.value \in {0, TrailingCost(activeSet, now)}
      /\ metrics.messageBurnRate.value \in {0, TrailingCount(activeSet, now)}

\* the rate of the claim: 0 for an empty sub-window or an elapsed time that
\* is not positive, otherwise the sum over the minutes since the earliest
\* event of the sub-window
TrailingRate(set, t, total) ==
    LET sub == TrailingEvents(set, t)
    IN  IF Len(sub) = 0 \/ t - sub[1].timestamp <= 0 THEN ZeroRate
        ELSE [value |-> total, elapsedMs |-> t - sub[1].timestamp]

\* C13: an empty trailing sub-window gives the rate 0; otherwise the rate is
\* the sum of the values over the minutes elapsed from the earliest event in
\* the sub-window to now, 0 when that time is not positive; the rate is
\* always finite and non-negative.
C13_BurnRateValue ==
    (pc = "done" /\ metrics # Null) =>
      /\ metrics.tokenBurnRate = TrailingRate(activeSet, now, TrailingTokens(activeSet, now))
      /\ metrics.costBurnRate = TrailingRate(activeSet, now, TrailingCost(activeSet, now))
      /\ metrics.messageBurnRate = TrailingRate(activeSet, now, TrailingCount(activeSet, now))
      /\ \A r \in {metrics.tokenBurnRate, metrics.costBurnRate, metrics.messageBurnRate} :
            r.value >= 0 /\ r.elapsedMs > 0

-----------------------------------------------------------------------------
(* Properties of the result on degenerate input *)

MetricsFields ==
    {"totalTokens", "inputTokens", "cacheCreationTokens", "cacheReadTokens",
     "outputTokens", "totalCost", "costLimit", "messageCount", "messageLimit",
     "sessionId", "startTime", "lastMessageTime", "sessionEndTime",
     "timeRemaining", "isActive", "tokenBurnRate", "costBurnRate",
     "messageBurnRate", "modelBreakdown", "projectBreakdown"}

\* every field of SessionMetrics is there and is a value of its type
FullyPopulated(m) ==
    /\ DOMAIN m = MetricsFields
    /\ \A f \in {"totalTokens", "inputTokens", "cacheCreationTokens",
                 "cacheReadTokens", "outputTokens", "totalCost", "costLimit",
                 "messageCount", "messageLimit", "startTime", "lastMessageTime",
                 "sessionEndTime", "timeRemaining"} : m[f] \in Nat
    /\ m.isActive \in BOOLEAN
    /\ \A f \in {"tokenBurnRate", "costBurnRate", "messageBurnRate"} :
          m[f].value \in Nat /\ m[f].elapsedMs \in Nat \ {0}
    /\ \A tier \in {"opus", "sonnet", "haiku"} : m.modelBreakdown[tier] \in Nat

\* no event, no event within the last 192 hours, or no window of the recent
\* events that contains now
NoUsableData ==
    \/ Len(messages) = 0
    \/ \A i \in 1..Len(messages) : Stale(messages[i])
    \/ LET ss == GroupIntoFiveHourSets(FilterRecent(SortByTimestamp(Dedup(messages)), now))
       IN  \A k \in 1..Len(ss) : now < ss[k].startTime \/ now > ss[k].endTime

\* C14: for every input, events without usage or without model included,
\* calculateSessionMetrics comes to its end with null or a fully populated
\* Metrics; an empty list, only stale events and no window containing now
\* all give the same null.
C14_NoFatalErrors ==
    /\ (pc = "start") ~> (pc = "done")
    /\ [](pc = "done" =>
            /\ metrics = Null \/ FullyPopulated(metrics)
            /\ NoUsableData => metrics = Null)

\* a Metrics computed from one event without usage and one without model
C14_Witness ==
    /\ pc = "done"
    /\ metrics # Null
    /\ Len(messages) = 2
    /\ messages[1].usage = NoUsage
    /\ messages[2].model = NoModel /\ messages[2].usage # NoUsage
    /\ metrics.messageCount = 1

-----------------------------------------------------------------------------
(* Properties of parseSessionFile *)

\* the record is not a summary, has a message with a usage object, and
\* input_tokens + output_tokens > 0
Qualifies(line) ==
    /\ line.kind = "object"
    /\ line.type # "summary"
    /\ line.message # NoMessage
    /\ line.message.usage # NoUsage
    /\ line.message.usage.input_tokens + line.message.usage.output_tokens > 0

\* the positions among the first n lines whose record qualifies, in file order
QualifyingPlaces(n) ==
    SelectSeq([i \in 1..n |-> i], LAMBDA i : Qualifies(lines[i]))

\* the k-th event was made from the line at place i
MadeFrom(event, line) ==
    /\ event.usage.input_tokens = line.message.usage.input_tokens
    /\ event.usage.output_tokens = line.message.usage.output_tokens
    /\ event.usage.cache_creation_input_tokens = line.message.usage.cache_creation_input_tokens
    /\ event.usage.cache_read_input_tokens = line.message.usage.cache_read_input_tokens
    /\ line.message.id # "" => event.id = line.message.id
    /\ line.timestamp # NoTimestamp => event.timestamp = line.timestamp

\* C15: parseSessionFile emits an event for a record iff the record is not
\* a summary, has a message with a usage object, and input_tokens +
\* output_tokens > 0; a record with cache counters only is discarded and
\* adds nothing to tokens, cost or message count.
C15_DiscardRules ==
    /\ pcParser # "idle" =>
         LET places == QualifyingPlaces(lineIdx - 1)
         IN  /\ Len(fileMessages) = Len(places)
             /\ \A k \in 1..Len(places) : MadeFrom(fileMessages[k], lines[places[k]])
    /\ (pcParser = "collected" /\ pc = "done" /\ metrics # Null) =>
         /\ \A i \in 1..Len(messages) :
               messages[i].usage.input_tokens + messages[i].usage.output_tokens > 0
         /\ metrics.messageCount <= Len(QualifyingPlaces(Len(lines)))

\* a file with a cache-only record and a counted record: the metrics hold
\* the counted record alone
C15_Witness ==
    /\ pcParser = "collected"
    /\ pc = "done"
    /\ metrics # Null
    /\ Len(lines) = 2
    /\ lines[1].kind = "object" /\ lines[1].type = "assistant"
    /\ lines[1].message.usage.input_tokens + lines[1].message.usage.output_tokens = 0
    /\ lines[1].message.usage.cache_creation_input_tokens = 1000
    /\ metrics.messageCount = 1
    /\ metrics.cacheCreationTokens = 0
    /\ metrics.totalCost = 1050

\* the line fails to parse or to normalise
Fails(line) == line.kind \in {"malformed", "null"}

RECURSIVE EventsOf(_)
\* the events of the lines ls, none of which fails, in file order
EventsOf(ls) ==
    IF Len(ls) = 0 THEN << >>
    ELSE (IF Head(ls).kind = "object" /\ Passes(Head(ls))
          THEN <<BuildMessage(Head(ls), ProjectDir, ParseClock)>>
          ELSE << >>) \o EventsOf(Tail(ls))

\* the lines the loop has gone through
LinesRead == SubSeq(lines, 1, lineIdx - 1)

\* C16: a line that fails to parse or normalise is skipped and affects only
\* itself: parseSessionFile returns the events of all the valid lines before
\* and after it, in file order, as if the failing lines were not there, and
\* it never raises to its caller.
C16_MalformedIsolation ==
    pcParser # "idle" =>
      /\ fileMessages = EventsOf(SelectSeq(LinesRead, LAMBDA line : ~Fails(line)))
      /\ consoleWarns = Len(SelectSeq(LinesRead, Fails))
      /\ (pcParser \in {"returned", "collected"} /\ consoleErrors = 0)
            => lineIdx = Len(lines) + 1
      /\ pcParser = "reading" => ENABLED (ParseLine \/ ParseReturn)

\* a valid line, a line that is not JSON, a valid line: both events returned
C16_Witness ==
    /\ pcParser = "returned"
    /\ consoleErrors = 0
    /\ Len(lines) = 3
    /\ ~Fails(lines[1]) /\ lines[2] = MalformedLine /\ ~Fails(lines[3])
    /\ Len(fileMessages) = 2
    /\ fileMessages[1].id = "a" /\ fileMessages[2].id = "b"
    /\ consoleWarns = 1

\* the events of ms whose id no earlier event of ms has
FirstById(ms) ==
    LET places == SelectSeq([i \in 1..Len(ms) |-> i],
                            LAMBDA i : \A j \in 1..(i - 1) : ms[j].id # ms[i].id)
    IN  [k \in 1..Len(places) |-> ms[places[k]]]

WithoutRequestId(ms) == SelectSeq(ms, LAMBDA m : m.requestId = "unknown")

\* C17: a record without request id gets requestId 'unknown' and a record
\* without message id and uuid gets id ''; the Engine counts two such events
\* as distinct exactly when their ids differ and collapses them to the first
\* one when their ids are equal, the empty default included.
C17_DedupKeyDefaults ==
    /\ pcParser # "idle" =>
         LET places == QualifyingPlaces(lineIdx - 1)
         IN  \A k \in 1..Len(places) :
                LET line == lines[places[k]] IN
                /\ (line.request_id = "" /\ line.requestId = "")
                      => fileMessages[k].requestId = "unknown"
                /\ (line.message.id = "" /\ line.uuid = "")
                      => fileMessages[k].id = ""
    /\ (pcParser = "collected" /\ Len(messages) > 0 /\ pc # "start") =>
         WithoutRequestId(uniqueMessages) = FirstById(WithoutRequestId(messages))
    /\ (pcParser = "collected" /\ pc = "done" /\ metrics # Null
          /\ WithoutRequestId(messages) = messages) =>
         metrics.messageCount = Cardinality({messages[i].id : i \in 1..Len(messages)})

\* three records without request id, two of them without any id: the two
\* are counted once, the third on its own
C17_Witness ==
    /\ pcParser = "collected"
    /\ pc = "done"
    /\ metrics # Null
    /\ Len(messages) = 3
    /\ \A i \in 1..3 : messages[i].requestId = "unknown"
    /\ messages[1].id = "" /\ messages[2].id = "a" /\ messages[3].id = ""
    /\ metrics.messageCount = 2

-----------------------------------------------------------------------------
(* Properties of getPlanConfig *)

\* the presets: token limit, cost limit in dollars, message limit
PresetTriples ==
    [pro |-> <<19000, 18, 250>>, max5 |-> <<88000, 35, 1000>>,
     max20 |-> <<220000, 140, 2000>>, custom |-> <<44000, 50, 250>>]

\* C18: getPlanConfig returns the preset's costLimit and messageLimit
\* unchanged; tokenLimit is the preset value except for plan 'custom' with a
\* supplied non-zero customTokenLimit, where it is that value; after any
\* sequence of calls the table PLAN_LIMITS is unchanged.
C18_QuotaPresets ==
    /\ \A k \in 1..Len(planCalls) :
          LET call == planCalls[k]
              preset == PresetTriples[call.plan]
          IN  /\ call.config.plan = call.plan
              /\ call.config.costLimit = preset[2] * 1000000
              /\ call.config.messageLimit = preset[3]
              /\ call.config.tokenLimit =
                    IF /\ call.plan = "custom"
                       /\ call.customTokenLimit # NoLimit
                       /\ call.customTokenLimit[1] # 0
                    THEN call.customTokenLimit[1]
                    ELSE preset[1]
    /\ \A plan \in Plans :
          /\ planLimits[plan].tokenLimit = PresetTriples[plan][1]
          /\ planLimits[plan].costLimit = PresetTriples[plan][2] * 1000000
          /\ planLimits[plan].messageLimit = PresetTriples[plan][3]

\* a custom call with an override followed by a custom call without one:
\* the second call returns the preset token limit
C18_Witness ==
    /\ Len(planCalls) = 2
    /\ planCalls[1].plan = "custom" /\ planCalls[1].customTokenLimit = <<100000>>
    /\ planCalls[1].config.tokenLimit = 100000
    /\ planCalls[2].plan = "custom" /\ planCalls[2].customTokenLimit = NoLimit
    /\ planCalls[2].config.tokenLimit = 44000

-----------------------------------------------------------------------------
(* Properties of the notifications *)

\* the end of the window of the session on disk at activation
FirstSessionEnd == At(5, 0)

\* the 'Claude session ended' notifications shown for the expiry at e
EndedShown(e) ==
    Len(SelectSeq(shown, LAMBDA n : n.message = SessionEndedMessage /\ n.at >= e))

\* the end e of the displayed session is reached and the notification is
\* enabled
EndReached(e) ==
    /\ notifyOnSessionEnded
    /\ currentSession # Null
    /\ currentSession.sessionEndTime = e
    /\ clock >= e

\* C19: whenever the end time of the displayed session is reached, the
\* 'Claude session ended' notification (when enabled) is shown by the timer,
\* exactly once for that expiry, whatever the interleaving of the timer with
\* the updateMetrics runs.
C19_SessionEndedNotification ==
    /\ [](EndedShown(FirstSessionEnd) <= 1)
    /\ EndReached(FirstSessionEnd) ~> (EndedShown(FirstSessionEnd) = 1)

WarningsShown ==
    Len(SelectSeq(shown, LAMBDA n : n.message = NoNewSessionMessage))

\* an updateMetrics run comes to its end
RunFinishes == Len(runs') < Len(runs)

\* the step is the timer detecting the expiry
ExpiryDetected ==
    /\ currentSession # Null
    /\ currentSession.sessionEndTime <= clock
    /\ sessionJustEnded' /\ isRefreshing' /\ refreshingStartTime' = clock
    /\ notifyOnSessionEnded => shown' = Append(shown, Notification(SessionEndedMessage))

\* C20: the 'No new session detected' warning is shown only by an
\* updateMetrics run that finds no active session at least 30 seconds after
\* the expiry was detected, at most once per expiry, and never after a run
\* in between found an active session, which displays the new figures and
\* clears sessionJustEnded and refreshingStartTime.
C20_NoNewSessionWarning ==
    [][/\ WarningsShown' # WarningsShown =>
            /\ WarningsShown' = WarningsShown + 1
            /\ RunFinishes /\ currentSession' = Null
            /\ sessionJustEnded /\ refreshingStartTime # NoTime
            /\ clock - refreshingStartTime >= 30000
            /\ ~sessionJustEnded' /\ refreshingStartTime' = NoTime
            /\ notifyOnSessionEnded =>
                  /\ Len(shown) > 0
                  /\ shown[Len(shown)].message = SessionEndedMessage
                  /\ clock - shown[Len(shown)].at >= 30000
       /\ (RunFinishes /\ currentSession' # Null) =>
            /\ ~sessionJustEnded' /\ refreshingStartTime' = NoTime
            /\ statusBarItem' = Update(currentSession')
            /\ shown' = shown
       /\ (sessionJustEnded' /\ ~sessionJustEnded) => ExpiryDetected
       /\ refreshingStartTime' \notin {refreshingStartTime, NoTime} => ExpiryDetected
      ]_vars

\* the notification at 05:00 and the warning 30 seconds later
C20_Witness ==
    /\ Len(shown) = 2
    /\ shown[1] = [message |-> SessionEndedMessage, at |-> At(5, 0)]
    /\ shown[2] = [message |-> NoNewSessionMessage, at |-> At(5, 0) + 30 * SEC_MS]

-----------------------------------------------------------------------------
(* Properties of the candidate windows *)

\* C23 as stated: at most one emitted window has start <= now <= end.
C23_UniqueCandidate == Cardinality(Candidates) <= 1

\* C23 amended: at most two emitted windows have start <= now <= end; two
\* of them are consecutive and now is the end of the first and the start of
\* the second; at most one has start <= now < end; the last candidate is the
\* one selected, and the only candidate it leaves behind is a window that
\* ends at now.
C23_CandidatesAdjacent ==
    /\ Cardinality(Candidates) <= 2
    /\ \A i \in Candidates : \A j \in Candidates :
          i < j => /\ j = i + 1
                   /\ Emitted[i].endTime = now
                   /\ Emitted[j].startTime = now
    /\ Cardinality({i \in Candidates : now < Emitted[i].endTime}) <= 1
    /\ (pc \in {"aggregate", "done"} /\ Candidates # {}) =>
          /\ activeSet = Emitted[LastCandidate]
          /\ \A i \in Candidates \ {LastCandidate} : Emitted[i].endTime = now

\* now is the end of the first window and the start of the second; the
\* second is selected
C23_Witness ==
    /\ pc = "aggregate"
    /\ Candidates = {1, 2}
    /\ sets[1].endTime = now
    /\ activeSet = sets[2]
    /\ activeSet.startTime = now

\* window w is well formed
WellFormed(w) ==
    LET n == Len(w.messages) IN
    /\ n >= 1
    /\ w.startTime % HOUR_MS = 0
    /\ w.startTime <= w.messages[1].timestamp
    /\ w.messages[1].timestamp < w.startTime + HOUR_MS
    /\ w.endTime = w.startTime + 5 * HOUR_MS
    /\ \A k \in 1..n : w.startTime <= w.messages[k].timestamp
                       /\ w.messages[k].timestamp < w.endTime
    /\ w.lastMessageTime = w.messages[n].timestamp
    /\ \A a \in 1..n : \A b \in 1..n :
          w.messages[b].timestamp - w.messages[a].timestamp < 5 * HOUR_MS

-----------------------------------------------------------------------------
(* Properties of the staleness filter as a refinement *)

\* C25: the filter never changes the result, so for one and the same event
\* list the window reported at a later instant of the window reported first
\* is that same window (same start, same end).
C25_FilterPreservesResult ==
    ( /\ pc = "done"
      /\ currentSession # Null
      /\ currentSession.startTime <= now
      /\ now < currentSession.sessionEndTime )
    =>
    ( /\ metrics # Null
      /\ metrics.startTime = currentSession.startTime
      /\ metrics.sessionEndTime = currentSession.sessionEndTime )

-----------------------------------------------------------------------------
(* Properties of the aggregates *)

\* the members of the active window that carry usage
WithUsage(set) == SelectSeq(set.messages, LAMBDA m : m.usage # NoUsage)

\* the members with usage whose model resolves to tier
OfTier(set, tier) == SelectSeq(WithUsage(set), LAMBDA m : GetModelTier(m.model) = tier)

RECURSIVE SumOver(_, _)
\* the sum of the values of f over the set D of its arguments
SumOver(f, D) ==
    IF D = {} THEN 0
    ELSE LET d == CHOOSE x \in D : TRUE IN f[d] + SumOver(f, D \ {d})

\* C26: in every returned Metrics, totalTokens = inputTokens + outputTokens
\* = the sum of the three tier buckets, each event's input+output tokens
\* being in the bucket of its own tier; messageCount is the number of events
\* with usage in the active window (the second dedup pass skips none); and
\* the projectBreakdown values sum to at most totalTokens.
C26_AggregateConservation ==
    (pc = "done" /\ metrics # Null) =>
      /\ metrics.totalTokens = metrics.inputTokens + metrics.outputTokens
      /\ metrics.totalTokens = metrics.modelBreakdown.opus + metrics.modelBreakdown.sonnet
                                 + metrics.modelBreakdown.haiku
      /\ \A tier \in {"opus", "sonnet", "haiku"} :
            metrics.modelBreakdown[tier] = SumInputOutput(OfTier(activeSet, tier))
      /\ metrics.messageCount = Len(WithUsage(activeSet))
      /\ SumOver(metrics.projectBreakdown, DOMAIN metrics.projectBreakdown)
            <= metrics.totalTokens

\* three counted events in three tiers, one of them without a project
C26_Witness ==
    /\ pc = "done"
    /\ metrics # Null
    /\ metrics.messageCount = 3
    /\ metrics.modelBreakdown.opus > 0
    /\ metrics.modelBreakdown.sonnet > 0
    /\ metrics.modelBreakdown.haiku > 0
    /\ SumOver(metrics.projectBreakdown, DOMAIN metrics.projectBreakdown)
          < metrics.totalTokens

-----------------------------------------------------------------------------
(* Properties of the inactivity-gap rule *)

\* the loop body of groupIntoFiveHourSets without the inactivity-gap branch
WithoutGapRule(g, message) ==
    IF g.currentSet = Null \/ message.timestamp >= g.currentSet.endTime
    THEN [sets |-> IF g.currentSet = Null THEN g.sets ELSE Append(g.sets, g.currentSet),
          currentSet |-> [startTime |-> message.timestamp - (message.timestamp % HOUR_MS),
                          endTime |-> message.timestamp - (message.timestamp % HOUR_MS)
                                        + 5 * HOUR_MS,
                          lastMessageTime |-> message.timestamp,
                          messages |-> <<message>>]]
    ELSE [sets |-> g.sets,
          currentSet |-> [g.currentSet EXCEPT !.messages = Append(@, message),
                                              !.lastMessageTime = message.timestamp]]

\* C27: on the time-sorted input of groupIntoFiveHourSets, a message before
\* the end of the current window is always less than five hours after the
\* window's last message, so the inactivity-gap branch is never taken, and
\* every iteration does what the loop without that branch does.
C27_GapRuleSubsumed ==
    [][ (pc = "group" /\ idx <= Len(recentMessages)) =>
          /\ ( currentSet # Null /\ recentMessages[idx].timestamp < currentSet.endTime )
                => recentMessages[idx].timestamp - currentSet.lastMessageTime < 5 * HOUR_MS
          /\ [sets |-> sets', currentSet |-> currentSet'] =
                WithoutGapRule([sets |-> sets, currentSet |-> currentSet],
                               recentMessages[idx]) ]_vars

\* the window holds a message at 00:17 and, appended to it, one at 04:59
C27_Witness ==
    /\ pc = "group"
    /\ currentSet # Null
    /\ Len(currentSet.messages) = 2
    /\ currentSet.messages[1].timestamp = currentSet.startTime + 17 * MIN_MS
    /\ currentSet.messages[2].timestamp = currentSet.endTime - MIN_MS

-----------------------------------------------------------------------------
(* Properties of the extension state *)

\* C21: from the moment the timer detects the expiry (isRefreshing set, the
\* status bar showing the refreshing text) until an updateMetrics run
\* completes, the status bar keeps showing the refreshing text: no step other
\* than the completion of a run overwrites it while isRefreshing is true.
C21_RefreshingKept ==
    [][(isRefreshing /\ statusBarItem = ShowRefreshing /\ ~RunFinishes)
          => statusBarItem' = ShowRefreshing]_vars

\* no event on disk has a timestamp at or after the end of the first window
NoLateEvent == \A i \in 1..Len(logFile) : logFile[i].timestamp < FirstSessionEnd

\* the window of the displayed session has expired
Expired == currentSession # Null /\ clock >= currentSession.sessionEndTime

\* there is no session and the status bar says so
NoSessionShown == currentSession = Null /\ statusBarItem = [text |-> "No Session"]

\* a run ends having found an active window
ActiveWindowDetected ==
    RunFinishes /\ currentSession' # Null /\ currentSession'.isActive

\* C22: if the window of the displayed session expires and no event with a
\* timestamp at or after its end is ever logged, then, the refresh interval
\* being scheduled fairly, currentSession eventually is null and the status
\* bar shows 'No Session'; and that lasts until a run detects a new active
\* window.
C22_AutomaticReset ==
    /\ ([]NoLateEvent) => (Expired ~> NoSessionShown)
    /\ [][NoSessionShown => (NoSessionShown' \/ ActiveWindowDetected)]_vars

\* the expiry was detected by the timer and a later run found no session
C22_Witness ==
    /\ NoSessionShown
    /\ NoLateEvent
    /\ sessionJustEnded
    /\ clock >= FirstSessionEnd

\* C28: after every completed handler, currentSession is null or a metrics
\* snapshot with isActive = true; sessionJustEnded holds exactly when
\* refreshingStartTime is set; and isRefreshing implies sessionJustEnded.
C28_ExtensionState ==
    /\ currentSession = Null \/ currentSession.isActive = TRUE
    /\ sessionJustEnded <=> refreshingStartTime # NoTime
    /\ isRefreshing => sessionJustEnded

\* the expiry was detected at 05:00 and a run has since found no session:
\* the refresh is over, the warning still due
C28_Witness ==
    /\ currentSession = Null
    /\ ~isRefreshing
    /\ sessionJustEnded
    /\ refreshingStartTime = FirstSessionEnd

\* C29: updateMetrics runs overlap, and the currentSession and status bar
\* left after overlapping runs have finished are those of the run that
\* started last: a run that read an older snapshot of the files never
\* overwrites the result of a run that read a newer one.  The files only
\* grow, so a run that started later has read every event an earlier run
\* has read; hence a completing run never leaves a session of the same
\* window with fewer messages than the displayed one, nor no session while
\* the displayed window is still running.
C29_LastStartedWins ==
    [][(RunFinishes /\ currentSession # Null) =>
          IF currentSession' = Null
          THEN clock >= currentSession.sessionEndTime
          ELSE (currentSession'.sessionEndTime = currentSession.sessionEndTime
                  => currentSession'.messageCount >= currentSession.messageCount)
      ]_vars

\* C30: every time the status bar is rendered for a session, by updatePlan,
\* a timer tick or updateMetrics, the token, cost and message figures are
\* all set against the limits of one plan, the planConfig loaded at that
\* moment, also between a change of plan and the completion of the next
\* updateMetrics run.
C30_PlanChangeConsistency ==
    [][(statusBarItem' # statusBarItem /\ statusBarItem'.text = "Reset") =>
          /\ statusBarItem'.tokenLimit = planConfig'.tokenLimit
          /\ statusBarItem'.costLimit = planConfig'.costLimit
          /\ statusBarItem'.messageLimit = planConfig'.messageLimit
      ]_vars

====
